---- MODULE Spec2Model ----
(***************************************************************************)
(* COT report manager and plotter (src/src/main.py, validate_data.py):     *)
(* the column resolver, the net-position deriver, the consolidation by     *)
(* contract, the fetch and load loops of the manager and its parquet       *)
(* files.                                                                  *)
(*                                                                         *)
(* A Python str is a sequence of one-character strings, so that            *)
(* str.lower() and the substring test "t in s" are computed on the text.   *)
(* A column is its index in ColumnNames, the table of column names.        *)
(***************************************************************************)
EXTENDS Integers, Sequences, FiniteSets, TLC

\* ------------------------------------------------------------------ text

UpperChars == <<"A","B","C","D","E","F","G","H","I","J","K","L","M","N","O","P","Q","R","S","T","U","V","W","X","Y","Z">>
LowerChars == <<"a","b","c","d","e","f","g","h","i","j","k","l","m","n","o","p","q","r","s","t","u","v","w","x","y","z">>
DigitChars == <<"0","1","2","3","4","5","6","7","8","9">>

\* str.lower(), one character
LowerChar(c) ==
  IF \E i \in DOMAIN UpperChars : UpperChars[i] = c
  THEN LowerChars[CHOOSE i \in DOMAIN UpperChars : UpperChars[i] = c]
  ELSE c

\* str.lower()
Lower(s) == [i \in DOMAIN s |-> LowerChar(s[i])]

\* t in s (substring test)
StrIn(t, s) == \E i \in 0..(Len(s) - Len(t)) : SubSeq(s, i + 1, i + Len(t)) = t

\* The column names of the tables: the CFTC legacy and disaggregated names the
\* reports carry, variants of them, and the three derived columns.
ColumnNames ==
  << <<"M","a","r","k","e","t"," ","a","n","d"," ","E","x","c","h","a","n","g","e"," ","N","a","m","e","s">>,
     <<"A","s"," ","o","f"," ","D","a","t","e"," ","i","n"," ","F","o","r","m"," ","Y","Y","M","M","D","D">>,
     <<"A","s"," ","o","f"," ","D","a","t","e"," ","i","n"," ","F","o","r","m"," ","Y","Y","Y","Y","-","M","M","-","D","D">>,
     <<"C","F","T","C"," ","C","o","n","t","r","a","c","t"," ","M","a","r","k","e","t"," ","C","o","d","e">>,
     <<"M","a","r","k","e","t","_","a","n","d","_","E","x","c","h","a","n","g","e","_","N","a","m","e","s">>,
     <<"R","e","p","o","r","t","_","D","a","t","e","_","a","s","_","Y","Y","Y","Y","-","M","M","-","D","D">>,
     <<"O","p","e","n"," ","I","n","t","e","r","e","s","t"," ","(","A","l","l",")">>,
     <<"N","o","n","c","o","m","m","e","r","c","i","a","l"," ","P","o","s","i","t","i","o","n","s","-","L","o","n","g"," ","(","A","l","l",")">>,
     <<"N","o","n","c","o","m","m","e","r","c","i","a","l"," ","P","o","s","i","t","i","o","n","s","-","S","h","o","r","t"," ","(","A","l","l",")">>,
     <<"N","o","n","c","o","m","m","e","r","c","i","a","l"," ","P","o","s","i","t","i","o","n","s","-","S","p","r","e","a","d","i","n","g"," ","(","A","l","l",")">>,
     <<"C","o","m","m","e","r","c","i","a","l"," ","P","o","s","i","t","i","o","n","s","-","L","o","n","g"," ","(","A","l","l",")">>,
     <<"C","o","m","m","e","r","c","i","a","l"," ","P","o","s","i","t","i","o","n","s","-","S","h","o","r","t"," ","(","A","l","l",")">>,
     <<"N","o","n","r","e","p","o","r","t","a","b","l","e"," ","P","o","s","i","t","i","o","n","s","-","L","o","n","g"," ","(","A","l","l",")">>,
     <<"N","o","n","r","e","p","o","r","t","a","b","l","e"," ","P","o","s","i","t","i","o","n","s","-","S","h","o","r","t"," ","(","A","l","l",")">>,
     <<"T","r","a","d","e","r","s","-","C","o","m","m","e","r","c","i","a","l","-","L","o","n","g"," ","(","A","l","l",")">>,
     <<"T","r","a","d","e","r","s","-","C","o","m","m","e","r","c","i","a","l","-","S","h","o","r","t"," ","(","A","l","l",")">>,
     <<"T","r","a","d","e","r","s","-","N","o","n","c","o","m","m","e","r","c","i","a","l","-","L","o","n","g"," ","(","A","l","l",")">>,
     <<"T","r","a","d","e","r","s","-","N","o","n","c","o","m","m","e","r","c","i","a","l","-","S","h","o","r","t"," ","(","A","l","l",")">>,
     <<"T","r","a","d","e","r","s","-","N","o","n","r","e","p","o","r","t","a","b","l","e","-","L","o","n","g"," ","(","A","l","l",")">>,
     <<"T","r","a","d","e","r","s","-","N","o","n","r","e","p","o","r","t","a","b","l","e","-","S","h","o","r","t"," ","(","A","l","l",")">>,
     <<"C","O","M","M","E","R","C","I","A","L"," ","P","O","S","I","T","I","O","N","S","-","L","O","N","G"," ","(","A","L","L",")">>,
     <<"T","R","A","D","E","R","S","-","C","O","M","M","E","R","C","I","A","L","-","L","O","N","G"," ","(","A","L","L",")">>,
     <<"C","o","m","m","_","P","o","s","i","t","i","o","n","s","_","L","o","n","g","_","A","l","l">>,
     <<"C","o","m","m","_","P","o","s","i","t","i","o","n","s","_","S","h","o","r","t","_","A","l","l">>,
     <<"C","o","m","m","e","r","c","i","a","l"," ","P","o","s","i","t","i","o","n","s","-","L","o","n","g"," ","(","O","l","d",")">>,
     <<"C","o","m","m","e","r","c","i","a","l","_","N","e","t">>,
     <<"N","o","n","C","o","m","m","e","r","c","i","a","l","_","N","e","t">>,
     <<"N","o","n","R","e","p","o","r","t","a","b","l","e","_","N","e","t">>,
     <<"N","o","n","c","o","m","m","e","r","c","i","a","l"," ","P","o","s","i","t","i","o","n","s","-","S","p","r","e","a","d","i","n","g"," ","L","o","n","g"," ","(","A","l","l",")">> >>

Column == DOMAIN ColumnNames

\* Python None for a column variable (a column name is never falsy)
None == 0

\* The column of a given name
Col(name) == CHOOSE c \in Column : ColumnNames[c] = name

\* The string literals the column tests look for
Token ==
  [ market        |-> <<"m","a","r","k","e","t">>,
    contract      |-> <<"c","o","n","t","r","a","c","t">>,
    date          |-> <<"d","a","t","e">>,
    yyyy          |-> <<"y","y","y","y">>,
    positions     |-> <<"p","o","s","i","t","i","o","n","s">>,
    trader        |-> <<"t","r","a","d","e","r">>,
    commercial    |-> <<"c","o","m","m","e","r","c","i","a","l">>,
    noncommercial |-> <<"n","o","n","c","o","m","m","e","r","c","i","a","l">>,
    nonreportable |-> <<"n","o","n","r","e","p","o","r","t","a","b","l","e">>,
    spreading     |-> <<"s","p","r","e","a","d","i","n","g">>,
    long          |-> <<"l","o","n","g">>,
    short         |-> <<"s","h","o","r","t">>,
    all           |-> <<"(","a","l","l",")">> ]

\* col.lower() of every column, and the literals it contains
ColLower == [c \in Column |-> Lower(ColumnNames[c])]
TokensIn == [c \in Column |-> {k \in DOMAIN Token : StrIn(Token[k], ColLower[c])}]

\* '<literal>' in col.lower()
Has(c, k) == k \in TokensIn[c]

\* -------------------------------------------------------------- resolver

\* comm_long .. small_short before the first pass: all None
NoRoles ==
  [ comm_long |-> None, comm_short |-> None,
    noncomm_long |-> None, noncomm_short |-> None,
    small_long |-> None, small_short |-> None ]

\* The first-pass body without the "noncommercial" test of its Commercial branch
Pass1ColNoExclusion(r, col) ==
  IF Has(col, "positions") THEN
    IF Has(col, "commercial") THEN
      IF Has(col, "long") /\ Has(col, "all") THEN [r EXCEPT !.comm_long = col]
      ELSE IF Has(col, "short") /\ Has(col, "all") THEN [r EXCEPT !.comm_short = col]
      ELSE r
    ELSE IF Has(col, "noncommercial") /\ ~Has(col, "spreading") THEN
      IF Has(col, "long") /\ Has(col, "all") THEN [r EXCEPT !.noncomm_long = col]
      ELSE IF Has(col, "short") /\ Has(col, "all") THEN [r EXCEPT !.noncomm_short = col]
      ELSE r
    ELSE IF Has(col, "nonreportable") THEN
      IF Has(col, "long") /\ Has(col, "all") THEN [r EXCEPT !.small_long = col]
      ELSE IF Has(col, "short") /\ Has(col, "all") THEN [r EXCEPT !.small_short = col]
      ELSE r
    ELSE r
  ELSE r

\* One iteration of the first-pass loop: the body for column col
Pass1Col(r, col) ==
  IF Has(col, "positions") THEN
    IF Has(col, "commercial") /\ ~Has(col, "noncommercial") THEN
      IF Has(col, "long") /\ Has(col, "all") THEN [r EXCEPT !.comm_long = col]
      ELSE IF Has(col, "short") /\ Has(col, "all") THEN [r EXCEPT !.comm_short = col]
      ELSE r
    ELSE IF Has(col, "noncommercial") /\ ~Has(col, "spreading") THEN
      IF Has(col, "long") /\ Has(col, "all") THEN [r EXCEPT !.noncomm_long = col]
      ELSE IF Has(col, "short") /\ Has(col, "all") THEN [r EXCEPT !.noncomm_short = col]
      ELSE r
    ELSE IF Has(col, "nonreportable") THEN
      IF Has(col, "long") /\ Has(col, "all") THEN [r EXCEPT !.small_long = col]
      ELSE IF Has(col, "short") /\ Has(col, "all") THEN [r EXCEPT !.small_short = col]
      ELSE r
    ELSE r
  ELSE r

\* The second-pass body without its "and not <role>" tests
Pass2ColOverwrites(r, col) ==
  IF Has(col, "trader") THEN
    IF Has(col, "commercial") /\ ~Has(col, "noncommercial") THEN
      IF Has(col, "long") /\ Has(col, "all") THEN [r EXCEPT !.comm_long = col]
      ELSE IF Has(col, "short") /\ Has(col, "all") THEN [r EXCEPT !.comm_short = col]
      ELSE r
    ELSE IF Has(col, "noncommercial") /\ ~Has(col, "spreading") THEN
      IF Has(col, "long") /\ Has(col, "all") THEN [r EXCEPT !.noncomm_long = col]
      ELSE IF Has(col, "short") /\ Has(col, "all") THEN [r EXCEPT !.noncomm_short = col]
      ELSE r
    ELSE IF Has(col, "nonreportable") THEN
      IF Has(col, "long") /\ Has(col, "all") THEN [r EXCEPT !.small_long = col]
      ELSE IF Has(col, "short") /\ Has(col, "all") THEN [r EXCEPT !.small_short = col]
      ELSE r
    ELSE r
  ELSE r

\* One iteration of the second-pass loop: the body for column col
Pass2Col(r, col) ==
  IF Has(col, "trader") THEN
    IF Has(col, "commercial") /\ ~Has(col, "noncommercial") THEN
      IF Has(col, "long") /\ Has(col, "all") /\ r.comm_long = None
      THEN [r EXCEPT !.comm_long = col]
      ELSE IF Has(col, "short") /\ Has(col, "all") /\ r.comm_short = None
      THEN [r EXCEPT !.comm_short = col]
      ELSE r
    ELSE IF Has(col, "noncommercial") /\ ~Has(col, "spreading") THEN
      IF Has(col, "long") /\ Has(col, "all") /\ r.noncomm_long = None
      THEN [r EXCEPT !.noncomm_long = col]
      ELSE IF Has(col, "short") /\ Has(col, "all") /\ r.noncomm_short = None
      THEN [r EXCEPT !.noncomm_short = col]
      ELSE r
    ELSE IF Has(col, "nonreportable") THEN
      IF Has(col, "long") /\ Has(col, "all") /\ r.small_long = None
      THEN [r EXCEPT !.small_long = col]
      ELSE IF Has(col, "short") /\ Has(col, "all") /\ r.small_short = None
      THEN [r EXCEPT !.small_short = col]
      ELSE r
    ELSE r
  ELSE r

\* for col in plot_df.columns: <first-pass body>, from column position i on
RECURSIVE Pass1Loop(_, _, _)
Pass1Loop(r, cols, i) ==
  IF i > Len(cols) THEN r ELSE Pass1Loop(Pass1Col(r, cols[i]), cols, i + 1)

\* for col in plot_df.columns: <second-pass body>, from column position i on
RECURSIVE Pass2Loop(_, _, _)
Pass2Loop(r, cols, i) ==
  IF i > Len(cols) THEN r ELSE Pass2Loop(Pass2Col(r, cols[i]), cols, i + 1)

\* The condition of the second pass turned around: if noncomm_long and
\* noncomm_short
Pass2RunsWhenResolved(r) == r.noncomm_long # None /\ r.noncomm_short # None

\* if not noncomm_long or not noncomm_short: the condition of the second pass
Pass2Runs(r) == r.noncomm_long = None \/ r.noncomm_short = None

\* The two passes over the columns of a table, as validate_cot_data and
\* plot_trader_positions both run them
Resolve(cols) ==
  LET r1 == Pass1Loop(NoRoles, cols, 1)
  IN  IF Pass2Runs(r1) THEN Pass2Loop(r1, cols, 1) ELSE r1

\* ---------------------------------------------------------------- values

\* A cell of a table: an integer, a str, a datetime (the proleptic Gregorian
\* ordinal of its day) or NaN/NaT (a missing value)
IntCell(n)  == [k |-> "int", n |-> n]
StrCell(s)  == [k |-> "str", s |-> s]
DateCell(d) == [k |-> "date", d |-> d]
NaN         == [k |-> "nan"]

IsDigit(c) == \E i \in DOMAIN DigitChars : DigitChars[i] = c
DigitVal(c) == (CHOOSE i \in DOMAIN DigitChars : DigitChars[i] = c) - 1

\* The value of a string of decimal digits
RECURSIVE DigitsVal(_)
DigitsVal(s) ==
  IF s = <<>> THEN 0
  ELSE 10 * DigitsVal(SubSeq(s, 1, Len(s) - 1)) + DigitVal(s[Len(s)])

AllDigits(s) == s # <<>> /\ \A i \in DOMAIN s : IsDigit(s[i])

\* pd.to_numeric(..., errors='coerce') on one cell: a number stays, a str that
\* is a decimal integer is parsed, anything else becomes NaN
ToNumericCell(c) ==
  IF c.k = "int" THEN c
  ELSE IF c.k = "str" /\ AllDigits(c.s) THEN IntCell(DigitsVal(c.s))
  ELSE IF c.k = "str" /\ Len(c.s) > 1 /\ c.s[1] = "-" /\ AllDigits(Tail(c.s))
       THEN IntCell(0 - DigitsVal(Tail(c.s)))
  ELSE NaN

\* .fillna(0) on one cell
FillNa0(c) == IF c.k = "nan" THEN IntCell(0) ELSE c

\* pd.to_numeric(col, errors='coerce').fillna(0) on one cell
CoerceCell(c) == FillNa0(ToNumericCell(c))

\* short - long: the operands exchanged
NetCellSwapped(l, s) == IntCell(s.n - l.n)

\* long - short on the coerced cells of one row
NetCell(l, s) == IntCell(l.n - s.n)

\* Calendar: date(y, m, d).toordinal()
IsLeap(y) == (y % 4 = 0 /\ y % 100 # 0) \/ y % 400 = 0
DaysInMonth(y, m) ==
  IF m = 2 THEN (IF IsLeap(y) THEN 29 ELSE 28)
  ELSE IF m \in {4, 6, 9, 11} THEN 30 ELSE 31
RECURSIVE DaysBeforeMonth(_, _)
DaysBeforeMonth(y, m) ==
  IF m = 1 THEN 0 ELSE DaysBeforeMonth(y, m - 1) + DaysInMonth(y, m - 1)
DaysBeforeYear(y) ==
  (y - 1) * 365 + ((y - 1) \div 4) - ((y - 1) \div 100) + ((y - 1) \div 400)
Ordinal(y, m, d) == DaysBeforeYear(y) + DaysBeforeMonth(y, m) + d

\* A str of the form YYYY-MM-DD that names a day of the calendar
IsIsoDate(s) ==
  /\ Len(s) = 10
  /\ s[5] = "-" /\ s[8] = "-"
  /\ \A i \in {1, 2, 3, 4, 6, 7, 9, 10} : IsDigit(s[i])
  /\ DigitsVal(SubSeq(s, 1, 4)) >= 1
  /\ DigitsVal(SubSeq(s, 6, 7)) \in 1..12
  /\ DigitsVal(SubSeq(s, 9, 10)) \in
       1..DaysInMonth(DigitsVal(SubSeq(s, 1, 4)), DigitsVal(SubSeq(s, 6, 7)))

\* pd.to_datetime of a YYYY-MM-DD str: the ordinal of the day
ParseDate(s) ==
  Ordinal(DigitsVal(SubSeq(s, 1, 4)), DigitsVal(SubSeq(s, 6, 7)),
          DigitsVal(SubSeq(s, 9, 10)))

\* pd.to_datetime on one cell: a datetime stays, a date str is parsed, a
\* missing value becomes NaT; any other str makes the call raise ("error")
ToDatetimeCell(c) ==
  IF c.k = "date" THEN c
  ELSE IF c.k = "nan" THEN NaN
  ELSE IF c.k = "str" /\ IsIsoDate(c.s) THEN DateCell(ParseDate(c.s))
  ELSE [k |-> "error"]

\* ---------------------------------------------------------------- tables

\* A DataFrame: its columns in order and its rows in order; a row carries its
\* index label (kept through filtering, sorting and concatenation) and one
\* cell per column
Table(columns, rows) == [columns |-> columns, rows |-> rows]
Row(idx, cells) == [idx |-> idx, cells |-> cells]
EmptyTable == Table(<<>>, <<>>)

HasColumn(t, col) == \E i \in DOMAIN t.columns : t.columns[i] = col
ColPos(t, col) == CHOOSE i \in DOMAIN t.columns : t.columns[i] = col

\* row[col]
CellOf(t, row, col) == row.cells[ColPos(t, col)]

\* df[col].values
ColumnValues(t, col) == [i \in DOMAIN t.rows |-> CellOf(t, t.rows[i], col)]

\* df[mask]: the rows that satisfy Keep, in order
FilterRows(t, Keep(_)) == Table(t.columns, SelectSeq(t.rows, Keep))

\* df[col] = F(df[col]), cell by cell
MapColumn(t, col, F(_)) ==
  Table(t.columns,
        [i \in DOMAIN t.rows |->
           Row(t.rows[i].idx,
               [j \in DOMAIN t.columns |->
                  IF t.columns[j] = col THEN F(t.rows[i].cells[j])
                  ELSE t.rows[i].cells[j]])])

\* df[col] = values: an existing column is overwritten, a new one is appended
AssignColumn(t, col, values) ==
  IF HasColumn(t, col)
  THEN Table(t.columns,
             [i \in DOMAIN t.rows |->
                Row(t.rows[i].idx,
                    [j \in DOMAIN t.columns |->
                       IF t.columns[j] = col THEN values[i]
                       ELSE t.rows[i].cells[j]])])
  ELSE Table(Append(t.columns, col),
             [i \in DOMAIN t.rows |->
                Row(t.rows[i].idx, Append(t.rows[i].cells, values[i]))])

\* The first column, in column order, that passes Test; None when none does
\* (for col in df.columns: if <test>: x = col; break)
FirstColumn(columns, Test(_)) ==
  IF \E i \in DOMAIN columns : Test(columns[i])
  THEN columns[CHOOSE i \in DOMAIN columns :
                 Test(columns[i]) /\ \A j \in 1..(i - 1) : ~Test(columns[j])]
  ELSE None

\* A date test without 'yyyy'
IsPlotDateColumnAnyDate(c) == Has(c, "date")

\* 'date' in col.lower() and 'yyyy' in col.lower()
IsPlotDateColumn(c) == Has(c, "date") /\ Has(c, "yyyy")

\* 'market' in col.lower() or 'contract' in col.lower()
IsContractColumn(c) == Has(c, "market") \/ Has(c, "contract")

\* The orders df.sort_values(col) can leave the rows in: ascending by the
\* column, rows of equal value in any order (the default sort is not stable),
\* missing values last
SortKeyLeq(a, b) ==
  IF a.k = "nan" THEN b.k = "nan"
  ELSE IF b.k = "nan" THEN TRUE
  ELSE IF a.k = "date" THEN a.d <= b.d ELSE a.n <= b.n

SortOutcomes(t, col) ==
  LET n == Len(t.rows)
      perms == {p \in [1..n -> 1..n] : \A i, j \in 1..n : i # j => p[i] # p[j]}
  IN  { Table(t.columns, [i \in 1..n |-> t.rows[p[i]]]) :
          p \in { q \in perms :
                    \A i \in 1..(n - 1) :
                      SortKeyLeq(CellOf(t, t.rows[q[i]], col),
                                 CellOf(t, t.rows[q[i + 1]], col)) } }

\* ------------------------------------------------------------------ state

VARIABLES
  df,             \* plot_trader_positions: the caller's table
  contract_name,  \* its contract_name argument
  report_type,    \* its report_type argument
  start_date,     \* its start_date argument (<<>>: None)
  end_date,       \* its end_date argument (<<>>: None)
  now,            \* what datetime.now() returns during the call
  pc,             \* the position of the call in the function body, or how
                  \* it ended: "no_data", "unsupported", "no_columns" (the
                  \* three returns), "shown" (the chart), "raised"
  date_col,       \* the local date_col
  contract_col,   \* the local contract_col
  plot_df,        \* the local plot_df
  roles,          \* the locals comm_long .. small_short
  trader_data,    \* the local trader_data
  printed,        \* what the call has printed
  drawn,          \* the bar series handed to the chart renderer
  raised,         \* the exception the call ended with ("": none)
  dataframes,     \* COTDataManager.dataframes: the report types that hold a
                  \* table, in the order of the dict, each with its table
  cons_pc,        \* consolidate_by_contract: the position of the call
  table_index,    \* the entry of dataframes its outer loop is at
  unique_contracts, \* the contracts of that table its inner loop has left
  consolidated,   \* the local dict consolidated, in the order of the dict
  cons_printed,   \* what the call has printed
  cons_raised,    \* the exception the call ended with ("": none)
  mgr_pc,         \* fetch_all_data and load_from_parquet: "new" after the
                  \* constructor, "fetch" or "load" inside the loop of a
                  \* call, "returned" or "raised" after a call
  report_index,   \* the entry of REPORT_TYPES the loop is at
  returned,       \* what cot.cot_all did for the report type the loop last
                  \* tried ("": not called yet in this call)
  mgr_printed,    \* the line the call last printed (<<>>: nothing yet)
  mgr_raised,     \* the exception the call ended with ("": none)
  first_call,     \* TRUE until a second call begins on the manager
  save_pc,        \* save_to_parquet: the position of the call
  save_index,     \* the entry of the dict its loop is at
  by_report_type, \* its by_report_type argument
  by_contract,    \* its by_contract argument
  report_files,   \* data_dir/by_report_type: file name (without .parquet)
                  \* to the table in the file
  contract_files, \* data_dir/by_contract, likewise
  save_printed,   \* what the call has printed
  save_raised     \* the exception the call ended with ("": none)

plotVars ==
  << df, contract_name, report_type, start_date, end_date, now, pc, date_col,
     contract_col, plot_df, roles, trader_data, printed, drawn, raised >>

consVars ==
  << dataframes, cons_pc, table_index, unique_contracts, consolidated,
     cons_printed, cons_raised >>

mgrVars ==
  << mgr_pc, report_index, returned, mgr_printed, mgr_raised, first_call >>

saveVars ==
  << save_pc, save_index, by_report_type, by_contract, report_files,
     contract_files, save_printed, save_raised >>

vars == << plotVars, consVars, mgrVars, saveVars >>

\* No call of save_to_parquet is under way, the data directory is empty
SaveIdle ==
  /\ save_pc = "idle"
  /\ save_index = 0
  /\ by_report_type = FALSE
  /\ by_contract = FALSE
  /\ report_files = <<>>
  /\ contract_files = <<>>
  /\ save_printed = <<>>
  /\ save_raised = ""

\* No call of fetch_all_data or load_from_parquet is under way
MgrIdle ==
  /\ mgr_pc = "new"
  /\ report_index = 0
  /\ returned = ""
  /\ mgr_printed = <<>>
  /\ mgr_raised = ""
  /\ first_call = TRUE

\* ------------------------------------------------- plot_trader_positions

\* timedelta(days=5*365)
DefaultRangeDays == 5 * 365

\* Find date column, find contract column; ValueError when one is missing
PlotFindColumns ==
  /\ pc = "start"
  /\ date_col' = FirstColumn(df.columns, IsPlotDateColumn)
  /\ IF date_col' = None
     THEN /\ raised' = "ValueError: Could not find date column in dataframe"
          /\ pc' = "raised"
          /\ UNCHANGED contract_col
     ELSE /\ contract_col' = FirstColumn(df.columns, IsContractColumn)
          /\ IF contract_col' = None
             THEN /\ raised' = "ValueError: Could not find contract column in dataframe"
                  /\ pc' = "raised"
             ELSE /\ pc' = "filter"
                  /\ UNCHANGED raised
  /\ UNCHANGED << df, contract_name, report_type, start_date, end_date, now,
                  plot_df, roles, trader_data, printed, drawn >>
  /\ UNCHANGED << consVars, mgrVars, saveVars >>

\* df[df[contract_col] == contract_name]
RowsOfContract(t, ccol, name) ==
  FilterRows(t, LAMBDA row : CellOf(t, row, ccol) = StrCell(name))

\* The start of the date range: None (<<>>) when only end_date is given
RangeStart(start, end, today) ==
  IF start = <<>> /\ end = <<>> THEN DateCell(today.day - DefaultRangeDays)
  ELSE IF start # <<>> THEN DateCell(ParseDate(start))
  ELSE NaN

\* The end of the date range: None when only start_date is given
RangeEnd(start, end, today) ==
  IF start = <<>> /\ end = <<>> THEN DateCell(today.day)
  ELSE IF end # <<>> THEN DateCell(ParseDate(end))
  ELSE NaN

\* plot_df[plot_df[date_col] >= start] and plot_df[plot_df[date_col] <= end];
\* a comparison with NaT is False
InDateRange(t, dcol, lo, hi) ==
  FilterRows(t, LAMBDA row :
    LET c == CellOf(t, row, dcol)
    IN  /\ lo.k = "date" => (c.k = "date" /\ c.d >= lo.d)
        /\ hi.k = "date" => (c.k = "date" /\ c.d <= hi.d))

\* Filter by contract, convert the date column, filter by date range, sort
PlotFilter ==
  /\ pc = "filter"
  /\ LET sel  == RowsOfContract(df, contract_col, contract_name)
         conv == MapColumn(sel, date_col, ToDatetimeCell)
     IN  IF sel.rows = <<>>
         THEN /\ printed' = Append(printed, [msg |-> "No data found for contract",
                                             columns |-> <<>>])
              /\ pc' = "no_data"
              /\ UNCHANGED << plot_df, raised >>
         ELSE IF \E i \in DOMAIN conv.rows :
                   CellOf(conv, conv.rows[i], date_col).k = "error"
         THEN /\ raised' = "pd.to_datetime: unparsable date"
              /\ pc' = "raised"
              /\ UNCHANGED << plot_df, printed >>
         ELSE /\ plot_df' \in SortOutcomes(
                   InDateRange(conv, date_col,
                               RangeStart(start_date, end_date, now),
                               RangeEnd(start_date, end_date, now)),
                   date_col)
              /\ pc' = "report_type"
              /\ UNCHANGED << printed, raised >>
  /\ UNCHANGED << df, contract_name, report_type, start_date, end_date, now,
                  date_col, contract_col, roles, trader_data, drawn >>
  /\ UNCHANGED << consVars, mgrVars, saveVars >>

\* if 'legacy' in report_type.lower(): ... else: print(not yet supported)
PlotReportType ==
  /\ pc = "report_type"
  /\ IF StrIn(<<"l","e","g","a","c","y">>, Lower(report_type))
     THEN /\ pc' = "pass1"
          /\ UNCHANGED printed
     ELSE /\ printed' = Append(printed, [msg |-> "Report type not yet supported",
                                         columns |-> <<>>])
          /\ pc' = "unsupported"
  /\ UNCHANGED << df, contract_name, report_type, start_date, end_date, now,
                  date_col, contract_col, plot_df, roles, trader_data, drawn,
                  raised >>
  /\ UNCHANGED << consVars, mgrVars, saveVars >>

\* First pass: look for "Positions" columns
PlotPass1 ==
  /\ pc = "pass1"
  /\ roles' = Pass1Loop(NoRoles, plot_df.columns, 1)
  /\ pc' = "pass2"
  /\ UNCHANGED << df, contract_name, report_type, start_date, end_date, now,
                  date_col, contract_col, plot_df, trader_data, printed, drawn,
                  raised >>
  /\ UNCHANGED << consVars, mgrVars, saveVars >>

\* Second pass: fallback to "Traders" columns, under its condition
PlotPass2 ==
  /\ pc = "pass2"
  /\ roles' = IF Pass2Runs(roles) THEN Pass2Loop(roles, plot_df.columns, 1)
              ELSE roles
  /\ pc' = "derive"
  /\ UNCHANGED << df, contract_name, report_type, start_date, end_date, now,
                  date_col, contract_col, plot_df, trader_data, printed, drawn,
                  raised >>
  /\ UNCHANGED << consVars, mgrVars, saveVars >>

\* One "if long and short:" block of the net calculation, on st = the table
\* and trader_data so far
DeriveCategory(st, long, short, net, label, color) ==
  IF long # None /\ short # None
  THEN LET t1 == MapColumn(st.t, long, CoerceCell)
           t2 == MapColumn(t1, short, CoerceCell)
           t3 == AssignColumn(t2, net,
                   [i \in DOMAIN t2.rows |->
                      NetCell(CellOf(t2, t2.rows[i], long),
                              CellOf(t2, t2.rows[i], short))])
       IN  [t |-> t3,
            td |-> Append(st.td, [label |-> label, col |-> net, color |-> color])]
  ELSE st

\* The three blocks made to depend on each other: nothing is derived unless
\* every role that was found has its partner
DeriveAllOrNothing(t, r) ==
  IF /\ (r.comm_long = None) = (r.comm_short = None)
     /\ (r.noncomm_long = None) = (r.noncomm_short = None)
     /\ (r.small_long = None) = (r.small_short = None)
  THEN LET s0 == [t |-> t, td |-> <<>>]
           s1 == DeriveCategory(s0, r.comm_long, r.comm_short,
                                Col(<<"C","o","m","m","e","r","c","i","a","l","_","N","e","t">>), "Large Commercials", "red")
           s2 == DeriveCategory(s1, r.noncomm_long, r.noncomm_short,
                                Col(<<"N","o","n","C","o","m","m","e","r","c","i","a","l","_","N","e","t">>), "Large Speculators", "blue")
       IN  DeriveCategory(s2, r.small_long, r.small_short,
                          Col(<<"N","o","n","R","e","p","o","r","t","a","b","l","e","_","N","e","t">>), "Small Speculators", "yellow")
  ELSE [t |-> t, td |-> <<>>]

\* trader_data = [] and the three blocks, in the order of the code
DeriveAll(t, r) ==
  LET s0 == [t |-> t, td |-> <<>>]
      s1 == DeriveCategory(s0, r.comm_long, r.comm_short,
                           Col(<<"C","o","m","m","e","r","c","i","a","l","_","N","e","t">>), "Large Commercials", "red")
      s2 == DeriveCategory(s1, r.noncomm_long, r.noncomm_short,
                           Col(<<"N","o","n","C","o","m","m","e","r","c","i","a","l","_","N","e","t">>), "Large Speculators", "blue")
      s3 == DeriveCategory(s2, r.small_long, r.small_short,
                           Col(<<"N","o","n","R","e","p","o","r","t","a","b","l","e","_","N","e","t">>), "Small Speculators", "yellow")
  IN  s3

\* Calculate net positions (Long - Short)
PlotDerive ==
  /\ pc = "derive"
  /\ plot_df' = DeriveAll(plot_df, roles).t
  /\ trader_data' = DeriveAll(plot_df, roles).td
  /\ pc' = "derived"
  /\ UNCHANGED << df, contract_name, report_type, start_date, end_date, now,
                  date_col, contract_col, roles, printed, drawn, raised >>
  /\ UNCHANGED << consVars, mgrVars, saveVars >>

\* The empty result raised as an error instead of reported
PlotReportRaises ==
  /\ pc = "derived"
  /\ trader_data = <<>>
  /\ raised' = "ValueError: Could not find position columns"
  /\ pc' = "raised"
  /\ UNCHANGED << df, contract_name, report_type, start_date, end_date, now,
                  date_col, contract_col, plot_df, roles, trader_data, printed,
                  drawn >>
  /\ UNCHANGED << consVars, mgrVars, saveVars >>

\* if not trader_data: print the condition and the columns, return
PlotReport ==
  /\ pc = "derived"
  /\ trader_data = <<>>
  /\ printed' = Append(printed, [msg |-> "Could not find position columns",
                                 columns |-> plot_df.columns])
  /\ pc' = "no_columns"
  /\ UNCHANGED << df, contract_name, report_type, start_date, end_date, now,
                  date_col, contract_col, plot_df, roles, trader_data, drawn,
                  raised >>
  /\ UNCHANGED << consVars, mgrVars, saveVars >>

\* The grouped bars: one ax.bar per entry of trader_data, then plt.show()
PlotRender ==
  /\ pc = "derived"
  /\ trader_data # <<>>
  /\ drawn' = [i \in DOMAIN trader_data |->
                 [label  |-> trader_data[i].label,
                  color  |-> trader_data[i].color,
                  values |-> ColumnValues(plot_df, trader_data[i].col)]]
  /\ pc' = "shown"
  /\ UNCHANGED << df, contract_name, report_type, start_date, end_date, now,
                  date_col, contract_col, plot_df, roles, trader_data, printed,
                  raised >>
  /\ UNCHANGED << consVars, mgrVars, saveVars >>

\* ----------------------------------------------------------------- inputs

MaxPosCols == 3   \* position columns of a table, beyond its key columns
MaxRows == 2      \* rows of a table

\* Sequences over S of length at most n, without repetition
DistinctSeqs(S, n) ==
  UNION { { q \in [1..k -> S] : \A i, j \in 1..k : i # j => q[i] # q[j] } :
            k \in 0..n }

\* Sequences over S of length at most n
SeqsUpTo(S, n) == UNION { [1..k -> S] : k \in 0..n }

\* The columns either pass looks at: the names with "positions" or "trader"
PositionPool == {c \in Column : Has(c, "positions") \/ Has(c, "trader")}

GOLD   == <<"G","O","L","D">>
SILVER == <<"S","I","L","V","E","R">>

\* A layout: the columns of a table, each with the field of a row that fills it
Field(col, field) == [col |-> Col(col), field |-> field]

LegacyKeys ==
  << Field(<<"M","a","r","k","e","t"," ","a","n","d"," ","E","x","c","h","a","n","g","e"," ","N","a","m","e","s">>, "contract"),
     Field(<<"A","s"," ","o","f"," ","D","a","t","e"," ","i","n"," ","F","o","r","m"," ","Y","Y","M","M","D","D">>, "yymmdd"),
     Field(<<"A","s"," ","o","f"," ","D","a","t","e"," ","i","n"," ","F","o","r","m"," ","Y","Y","Y","Y","-","M","M","-","D","D">>, "date"),
     Field(<<"C","F","T","C"," ","C","o","n","t","r","a","c","t"," ","M","a","r","k","e","t"," ","C","o","d","e">>, "code") >>

LayoutSpecExample ==
  << Field(<<"M","a","r","k","e","t","_","a","n","d","_","E","x","c","h","a","n","g","e","_","N","a","m","e","s">>, "contract"),
     Field(<<"R","e","p","o","r","t","_","D","a","t","e","_","a","s","_","Y","Y","Y","Y","-","M","M","-","D","D">>, "date"),
     Field(<<"C","o","m","m","_","P","o","s","i","t","i","o","n","s","_","L","o","n","g","_","A","l","l">>, "long"),
     Field(<<"C","o","m","m","_","P","o","s","i","t","i","o","n","s","_","S","h","o","r","t","_","A","l","l">>, "short") >>

LayoutLegacy ==
  LegacyKeys \o << Field(<<"C","o","m","m","e","r","c","i","a","l"," ","P","o","s","i","t","i","o","n","s","-","L","o","n","g"," ","(","A","l","l",")">>, "long"),
                   Field(<<"C","o","m","m","e","r","c","i","a","l"," ","P","o","s","i","t","i","o","n","s","-","S","h","o","r","t"," ","(","A","l","l",")">>, "short") >>

LayoutNoPlotDate ==
  << Field(<<"M","a","r","k","e","t"," ","a","n","d"," ","E","x","c","h","a","n","g","e"," ","N","a","m","e","s">>, "contract"),
     Field(<<"A","s"," ","o","f"," ","D","a","t","e"," ","i","n"," ","F","o","r","m"," ","Y","Y","M","M","D","D">>, "yymmdd"),
     Field(<<"C","o","m","m","e","r","c","i","a","l"," ","P","o","s","i","t","i","o","n","s","-","L","o","n","g"," ","(","A","l","l",")">>, "long"),
     Field(<<"C","o","m","m","e","r","c","i","a","l"," ","P","o","s","i","t","i","o","n","s","-","S","h","o","r","t"," ","(","A","l","l",")">>, "short") >>

LayoutNoContract ==
  << Field(<<"A","s"," ","o","f"," ","D","a","t","e"," ","i","n"," ","F","o","r","m"," ","Y","Y","Y","Y","-","M","M","-","D","D">>, "date"),
     Field(<<"C","o","m","m","e","r","c","i","a","l"," ","P","o","s","i","t","i","o","n","s","-","L","o","n","g"," ","(","A","l","l",")">>, "long"),
     Field(<<"C","o","m","m","e","r","c","i","a","l"," ","P","o","s","i","t","i","o","n","s","-","S","h","o","r","t"," ","(","A","l","l",")">>, "short") >>

LayoutCodeFirst ==
  << Field(<<"C","F","T","C"," ","C","o","n","t","r","a","c","t"," ","M","a","r","k","e","t"," ","C","o","d","e">>, "code"),
     Field(<<"R","e","p","o","r","t","_","D","a","t","e","_","a","s","_","Y","Y","Y","Y","-","M","M","-","D","D">>, "date"),
     Field(<<"M","a","r","k","e","t"," ","a","n","d"," ","E","x","c","h","a","n","g","e"," ","N","a","m","e","s">>, "contract"),
     Field(<<"T","r","a","d","e","r","s","-","C","o","m","m","e","r","c","i","a","l","-","L","o","n","g"," ","(","A","l","l",")">>, "long"),
     Field(<<"T","r","a","d","e","r","s","-","C","o","m","m","e","r","c","i","a","l","-","S","h","o","r","t"," ","(","A","l","l",")">>, "short") >>

\* The table of a layout and a sequence of row values
RowCells(layout, v) ==
  [j \in DOMAIN layout |->
     CASE layout[j].field = "contract" -> StrCell(v.contract)
       [] layout[j].field = "date"     -> v.date
       [] layout[j].field = "yymmdd"   -> DateCell(ParseDate(<<"1","9","7","0","-","0","1","-","0","1">>))
       [] layout[j].field = "code"     -> StrCell(<<"0","8","8","6","9","1">>)
       [] layout[j].field = "long"     -> v.long
       [] layout[j].field = "short"    -> v.short
       [] layout[j].field = "value"    -> v.value]

TableOf(layout, values) ==
  Table([j \in DOMAIN layout |-> layout[j].col],
        [i \in DOMAIN values |-> Row(i - 1, RowCells(layout, values[i]))])

Today        == [day |-> ParseDate(<<"2","0","2","6","-","1","1","-","0","2">>), secs |-> 33000]
TodayAtEdge  == [day |-> ParseDate(<<"2","0","2","4","-","0","6","-","2","8">>), secs |-> 0]

Args(name, rtype, start, end, today) ==
  [contract_name |-> name, report_type |-> rtype, start_date |-> start,
   end_date |-> end, now |-> today]

\* The state at the call of plot_trader_positions(table, ...)
PlotCall(table, args) ==
  /\ df = table
  /\ contract_name = args.contract_name
  /\ report_type = args.report_type
  /\ start_date = args.start_date
  /\ end_date = args.end_date
  /\ now = args.now
  /\ pc = "start"
  /\ date_col = None
  /\ contract_col = None
  /\ plot_df = EmptyTable
  /\ roles = NoRoles
  /\ trader_data = <<>>
  /\ printed = <<>>
  /\ drawn = <<>>
  /\ raised = ""
  /\ dataframes = <<>>
  /\ cons_pc = "idle"
  /\ table_index = 0
  /\ unique_contracts = <<>>
  /\ consolidated = <<>>
  /\ cons_printed = <<>>
  /\ cons_raised = ""
  /\ MgrIdle
  /\ SaveIdle

\* Tables of one row with the legacy key columns and any position columns in
\* any order
InitColumns ==
  \E pos \in DistinctSeqs(PositionPool, MaxPosCols) :
    PlotCall(
      Table([j \in DOMAIN LegacyKeys |-> LegacyKeys[j].col] \o pos,
            << Row(0, RowCells(LegacyKeys,
                               [contract |-> GOLD,
                                date |-> DateCell(ParseDate(<<"2","0","2","4","-","0","1","-","0","2">>))])
                      \o [j \in DOMAIN pos |-> IntCell(100 * j * j)]) >>),
      Args(GOLD, <<"l","e","g","a","c","y","_","f","u","t">>, <<"2","0","2","4","-","0","1","-","0","1">>, <<>>, Today))

\* Long and Short cells: numbers, numerals, text that is no number, missing
CellPairs ==
  { [long |-> IntCell(1000),         short |-> IntCell(400)],
    [long |-> StrCell(<<"1","0","0","0">>),     short |-> StrCell(<<"n","/","a">>)],
    [long |-> NaN,                   short |-> IntCell(400)],
    [long |-> StrCell(<<"-","2","5">>),      short |-> StrCell(<<"1",",","0","0","0">>)],
    [long |-> IntCell(400),          short |-> NaN],
    [long |-> StrCell(<<>>),         short |-> StrCell(<<"7">>)] }

\* Tables of one contract with any Long and Short cells
InitValues ==
  \E layout \in {LayoutSpecExample, LayoutLegacy, LayoutCodeFirst} :
  \E values \in SeqsUpTo(
       { [contract |-> GOLD, date |-> d, long |-> p.long, short |-> p.short] :
           d \in {StrCell(<<"2","0","2","4","-","0","1","-","0","2">>), DateCell(ParseDate(<<"2","0","2","5","-","0","3","-","0","4">>))},
           p \in CellPairs }, MaxRows) :
  \E args \in { Args(GOLD, <<"l","e","g","a","c","y","_","f","u","t">>, <<"2","0","2","4","-","0","1","-","0","1">>, <<>>, Today),
                Args(GOLD, <<"l","e","g","a","c","y","_","f","u","t">>, <<>>, <<>>, Today) } :
    PlotCall(TableOf(layout, values), args)

\* Tables of two contracts with any dates, under any arguments
InitArgs ==
  \E layout \in {LayoutSpecExample, LayoutLegacy, LayoutNoPlotDate,
                 LayoutNoContract, LayoutCodeFirst} :
  \E values \in SeqsUpTo(
       { [contract |-> c, date |-> d, long |-> IntCell(1000),
          short |-> IntCell(400)] :
           c \in {GOLD, SILVER},
           d \in {DateCell(ParseDate(<<"2","0","2","4","-","0","1","-","0","2">>)),
                  DateCell(ParseDate(<<"2","0","1","9","-","0","6","-","3","0">>)),
                  StrCell(<<"n","/","a">>), NaN} }, MaxRows) :
  \E args \in { Args(GOLD, <<"l","e","g","a","c","y","_","f","u","t">>, <<>>, <<>>, Today),
                Args(GOLD, <<"l","e","g","a","c","y","_","f","u","t">>, <<>>, <<>>, TodayAtEdge),
                Args(GOLD, <<"l","e","g","a","c","y","_","f","u","t">>, <<>>, <<"2","0","1","9","-","1","2","-","3","1">>, Today),
                Args(SILVER, <<"L","e","g","a","c","y","_","F","u","t","O","p","t">>, <<"2","0","1","9","-","0","1","-","0","1">>, <<"2","0","2","4","-","1","2","-","3","1">>, Today),
                Args(GOLD, <<"d","i","s","a","g","g","r","e","g","a","t","e","d","_","f","u","t">>, <<>>, <<>>, Today) } :
    PlotCall(TableOf(layout, values), args)

InitPlot == InitColumns \/ InitValues \/ InitArgs

NextPlot ==
  \/ PlotFindColumns
  \/ PlotFilter
  \/ PlotReportType
  \/ PlotPass1
  \/ PlotPass2
  \/ PlotDerive
  \/ PlotReport
  \/ PlotRender

SpecPlot == InitPlot /\ [][NextPlot]_vars

\* ----------------------------------------------- consolidate_by_contract

\* REPORT_TYPES
REPORT_TYPES ==
  << <<"l","e","g","a","c","y","_","f","u","t">>,
     <<"l","e","g","a","c","y","_","f","u","t","o","p","t">>,
     <<"s","u","p","p","l","e","m","e","n","t","a","l","_","f","u","t","o","p","t">>,
     <<"d","i","s","a","g","g","r","e","g","a","t","e","d","_","f","u","t">>,
     <<"d","i","s","a","g","g","r","e","g","a","t","e","d","_","f","u","t","o","p","t">>,
     <<"t","r","a","d","e","r","s","_","i","n","_","f","i","n","a","n","c","i","a","l","_","f","u","t","u","r","e","s","_","f","u","t">>,
     <<"t","r","a","d","e","r","s","_","i","n","_","f","i","n","a","n","c","i","a","l","_","f","u","t","u","r","e","s","_","f","u","t","o","p","t">> >>

\* df.empty
IsEmpty(t) == t.rows = <<>> \/ t.columns = <<>>

\* 'date' in col.lower()
IsDateColumn(c) == Has(c, "date")

\* The rows at the positions in keep, in order
RowsAt(rows, keep) ==
  LET F[i \in 0..Len(rows)] ==
        IF i = 0 THEN <<>>
        ELSE IF i \in keep THEN Append(F[i - 1], rows[i]) ELSE F[i - 1]
  IN  F[Len(rows)]

\* df[col].unique(): the values of the column in order of first appearance
UniqueValues(t, col) ==
  LET vals == ColumnValues(t, col)
  IN  RowsAt(vals, {i \in DOMAIN vals : \A j \in 1..(i - 1) : vals[j] # vals[i]})

\* df[df[col] == value].copy(); a missing value equals nothing
RowsWithValue(t, col, value) ==
  FilterRows(t, LAMBDA row : CellOf(t, row, col) = value /\ value.k # "nan")

\* pd.concat([a, b]): the columns of a, then the columns only b has; the rows
\* of a, then the rows of b; a cell of a column the row's table lacks is NaN
Concat(a, b) ==
  LET columns == a.columns \o SelectSeq(b.columns, LAMBDA c : ~HasColumn(a, c))
      Widen(t, row) ==
        Row(row.idx,
            [j \in DOMAIN columns |->
               IF HasColumn(t, columns[j]) THEN CellOf(t, row, columns[j]) ELSE NaN])
  IN  Table(columns,
            [i \in 1..(Len(a.rows) + Len(b.rows)) |->
               IF i <= Len(a.rows) THEN Widen(a, a.rows[i])
               ELSE Widen(b, b.rows[i - Len(a.rows)])])

\* .drop_duplicates(subset=[col], keep='last'): a row stays unless a later row
\* has the same value in col; missing values count as equal
DropDuplicatesKeepLast(t, col) ==
  Table(t.columns,
        RowsAt(t.rows,
               {i \in DOMAIN t.rows :
                  \A j \in (i + 1)..Len(t.rows) :
                    CellOf(t, t.rows[j], col) # CellOf(t, t.rows[i], col)}))

\* contract in consolidated, consolidated[contract]
InDict(dict, key) == \E i \in DOMAIN dict : dict[i].key = key
DictGet(dict, key) == dict[CHOOSE i \in DOMAIN dict : dict[i].key = key].df

\* consolidated[contract] = table: a new key goes last, an old one keeps its place
DictPut(dict, key, table) ==
  IF InDict(dict, key)
  THEN [i \in DOMAIN dict |->
          IF dict[i].key = key THEN [key |-> key, df |-> table] ELSE dict[i]]
  ELSE Append(dict, [key |-> key, df |-> table])

\* The outer loop at the next entry of dataframes: an empty table and a table
\* without contract column are passed over, any other table is grouped
ConsTable ==
  /\ cons_pc = "tables"
  /\ table_index <= Len(dataframes)
  /\ LET t    == dataframes[table_index].df
         ccol == FirstColumn(t.columns, IsContractColumn)
     IN  IF IsEmpty(t)
         THEN /\ table_index' = table_index + 1
              /\ UNCHANGED << cons_pc, unique_contracts, cons_printed >>
         ELSE IF ccol = None
         THEN /\ cons_printed' =
                   Append(cons_printed,
                          [msg |-> "Could not find contract column",
                           report_type |-> dataframes[table_index].report_type])
              /\ table_index' = table_index + 1
              /\ UNCHANGED << cons_pc, unique_contracts >>
         ELSE /\ unique_contracts' = UniqueValues(t, ccol)
              /\ cons_pc' = "contracts"
              /\ UNCHANGED << table_index, cons_printed >>
  /\ UNCHANGED << dataframes, consolidated, cons_raised >>
  /\ UNCHANGED << plotVars, mgrVars, saveVars >>

\* The inner loop at the next contract of the table: its rows are stored, or
\* merged with the rows stored for it; the merge raises IndexError when the
\* rows have no column with 'date'
ConsContract ==
  /\ cons_pc = "contracts"
  /\ unique_contracts # <<>>
  /\ LET t             == dataframes[table_index].df
         ccol          == FirstColumn(t.columns, IsContractColumn)
         contract      == Head(unique_contracts)
         contract_data == RowsWithValue(t, ccol, contract)
         dcol          == FirstColumn(contract_data.columns, IsDateColumn)
     IN  IF ~InDict(consolidated, contract)
         THEN /\ consolidated' = DictPut(consolidated, contract, contract_data)
              /\ unique_contracts' = Tail(unique_contracts)
              /\ UNCHANGED << cons_pc, cons_raised >>
         ELSE IF dcol = None
         THEN /\ cons_raised' = "IndexError: list index out of range"
              /\ cons_pc' = "raised"
              /\ UNCHANGED << consolidated, unique_contracts >>
         ELSE /\ \E merged \in SortOutcomes(
                     DropDuplicatesKeepLast(
                       Concat(DictGet(consolidated, contract), contract_data),
                       dcol),
                     dcol) :
                   consolidated' = DictPut(consolidated, contract, merged)
              /\ unique_contracts' = Tail(unique_contracts)
              /\ UNCHANGED << cons_pc, cons_raised >>
  /\ UNCHANGED << dataframes, table_index, cons_printed >>
  /\ UNCHANGED << plotVars, mgrVars, saveVars >>

\* The inner loop is through: on to the next entry of dataframes
ConsNextTable ==
  /\ cons_pc = "contracts"
  /\ unique_contracts = <<>>
  /\ table_index' = table_index + 1
  /\ cons_pc' = "tables"
  /\ UNCHANGED << dataframes, unique_contracts, consolidated, cons_printed,
                  cons_raised >>
  /\ UNCHANGED << plotVars, mgrVars, saveVars >>

\* The outer loop is through: print the count, return consolidated
ConsReturn ==
  /\ cons_pc = "tables"
  /\ table_index > Len(dataframes)
  /\ cons_printed' = Append(cons_printed,
                            [msg |-> "Consolidated unique contracts",
                             count |-> Len(consolidated)])
  /\ cons_pc' = "done"
  /\ UNCHANGED << dataframes, table_index, unique_contracts, consolidated,
                  cons_raised >>
  /\ UNCHANGED << plotVars, mgrVars, saveVars >>

\* Tables of the manager: key columns as the legacy and the disaggregated
\* reports name them, one value column
ConsLegacy ==
  << Field(<<"M","a","r","k","e","t"," ","a","n","d"," ","E","x","c","h","a","n","g","e"," ","N","a","m","e","s">>, "contract"),
     Field(<<"A","s"," ","o","f"," ","D","a","t","e"," ","i","n"," ","F","o","r","m"," ","Y","Y","Y","Y","-","M","M","-","D","D">>, "date"),
     Field(<<"O","p","e","n"," ","I","n","t","e","r","e","s","t"," ","(","A","l","l",")">>, "value") >>

ConsDisaggregated ==
  << Field(<<"M","a","r","k","e","t","_","a","n","d","_","E","x","c","h","a","n","g","e","_","N","a","m","e","s">>, "contract"),
     Field(<<"R","e","p","o","r","t","_","D","a","t","e","_","a","s","_","Y","Y","Y","Y","-","M","M","-","D","D">>, "date"),
     Field(<<"O","p","e","n"," ","I","n","t","e","r","e","s","t"," ","(","A","l","l",")">>, "value") >>

ConsNoContract ==
  << Field(<<"A","s"," ","o","f"," ","D","a","t","e"," ","i","n"," ","F","o","r","m"," ","Y","Y","Y","Y","-","M","M","-","D","D">>, "date"),
     Field(<<"O","p","e","n"," ","I","n","t","e","r","e","s","t"," ","(","A","l","l",")">>, "value") >>

ConsNoDate ==
  << Field(<<"M","a","r","k","e","t"," ","a","n","d"," ","E","x","c","h","a","n","g","e"," ","N","a","m","e","s">>, "contract"),
     Field(<<"O","p","e","n"," ","I","n","t","e","r","e","s","t"," ","(","A","l","l",")">>, "value") >>

\* The tables of a layout with at most MaxRows rows of two contracts and two
\* report dates in any order; the value of row i of table k is 10 * k + i
TablesOf(k, layouts) ==
  { TableOf(layout,
            [i \in DOMAIN keys |->
               [contract |-> keys[i].contract, date |-> keys[i].date,
                value |-> IntCell(10 * k + i)]]) :
      layout \in layouts,
      keys \in SeqsUpTo({ [contract |-> c, date |-> DateCell(ParseDate(d))] :
                            c \in {GOLD, SILVER},
                            d \in {<<"2","0","2","4","-","0","1","-","0","2">>, <<"2","0","2","4","-","0","1","-","0","9">>} }, MaxRows) }

\* No call of plot_trader_positions is under way
PlotIdle ==
  /\ df = EmptyTable
  /\ contract_name = <<>>
  /\ report_type = <<>>
  /\ start_date = <<>>
  /\ end_date = <<>>
  /\ now = Today
  /\ pc = "idle"
  /\ date_col = None
  /\ contract_col = None
  /\ plot_df = EmptyTable
  /\ roles = NoRoles
  /\ trader_data = <<>>
  /\ printed = <<>>
  /\ drawn = <<>>
  /\ raised = ""

\* The state at the call of consolidate_by_contract(): dataframes holds a
\* table for legacy_fut or none, then a table for legacy_futopt (legacy
\* names), a table for disaggregated_fut (disaggregated names) or none
InitCons ==
  /\ PlotIdle
  /\ \E first \in TablesOf(1, {ConsLegacy, ConsNoContract}) \cup {EmptyTable},
        second \in TablesOf(2, {ConsLegacy, ConsDisaggregated, ConsNoDate})
                     \cup {EmptyTable} :
       dataframes =
         (IF first = EmptyTable THEN <<>>
          ELSE << [report_type |-> REPORT_TYPES[1], df |-> first] >>)
         \o (IF second = EmptyTable THEN <<>>
             ELSE IF HasColumn(second, Col(<<"M","a","r","k","e","t","_","a","n","d","_","E","x","c","h","a","n","g","e","_","N","a","m","e","s">>))
             THEN << [report_type |-> REPORT_TYPES[4], df |-> second] >>
             ELSE << [report_type |-> REPORT_TYPES[2], df |-> second] >>)
  /\ cons_pc = "tables"
  /\ table_index = 1
  /\ unique_contracts = <<>>
  /\ consolidated = <<>>
  /\ cons_printed = <<>>
  /\ cons_raised = ""
  /\ MgrIdle
  /\ SaveIdle

NextCons ==
  \/ ConsTable
  \/ ConsContract
  \/ ConsNextTable
  \/ ConsReturn

SpecCons == InitCons /\ [][NextCons]_vars

\* ------------------------------------------------- the resolver's contract

\* The six position roles: category token, side token, and the tokens whose
\* presence excludes a column from the category
RoleRule ==
  [ comm_long     |-> [category |-> "commercial",    side |-> "long",
                       excluded |-> {"noncommercial"}, net |-> Col(<<"C","o","m","m","e","r","c","i","a","l","_","N","e","t">>)],
    comm_short    |-> [category |-> "commercial",    side |-> "short",
                       excluded |-> {"noncommercial"}, net |-> Col(<<"C","o","m","m","e","r","c","i","a","l","_","N","e","t">>)],
    noncomm_long  |-> [category |-> "noncommercial", side |-> "long",
                       excluded |-> {"spreading"},     net |-> Col(<<"N","o","n","C","o","m","m","e","r","c","i","a","l","_","N","e","t">>)],
    noncomm_short |-> [category |-> "noncommercial", side |-> "short",
                       excluded |-> {"spreading"},     net |-> Col(<<"N","o","n","C","o","m","m","e","r","c","i","a","l","_","N","e","t">>)],
    small_long    |-> [category |-> "nonreportable", side |-> "long",
                       excluded |-> {},              net |-> Col(<<"N","o","n","R","e","p","o","r","t","a","b","l","e","_","N","e","t">>)],
    small_short   |-> [category |-> "nonreportable", side |-> "short",
                       excluded |-> {},              net |-> Col(<<"N","o","n","R","e","p","o","r","t","a","b","l","e","_","N","e","t">>)] ]

Roles == DOMAIN RoleRule

\* The three categories: their Long role, their Short role, their net column
Categories ==
  { [long |-> "comm_long", short |-> "comm_short", net |-> Col(<<"C","o","m","m","e","r","c","i","a","l","_","N","e","t">>),
     label |-> "Large Commercials"],
    [long |-> "noncomm_long", short |-> "noncomm_short",
     net |-> Col(<<"N","o","n","C","o","m","m","e","r","c","i","a","l","_","N","e","t">>), label |-> "Large Speculators"],
    [long |-> "small_long", short |-> "small_short",
     net |-> Col(<<"N","o","n","R","e","p","o","r","t","a","b","l","e","_","N","e","t">>), label |-> "Small Speculators"] }

\* Column c qualifies for role in the pass that looks for passToken
\* ("positions" in the first pass, "trader" in the second)
Qualifies(c, role, passToken) ==
  /\ Has(c, passToken)
  /\ Has(c, RoleRule[role].category)
  /\ Has(c, RoleRule[role].side)
  /\ Has(c, "all")
  /\ \A x \in RoleRule[role].excluded : ~Has(c, x)

QualifyingIn(columns, role, passToken) ==
  {i \in DOMAIN columns : Qualifies(columns[i], role, passToken)}

Min(S) == CHOOSE x \in S : \A y \in S : x <= y

\* The call has run both passes
ResolverDone == pc \in {"derive", "derived", "no_columns", "shown"}

\* The call has run the net calculation
DeriverDone == pc \in {"derived", "no_columns", "shown"}

\* C1: in every table with a qualifying "positions" column and a qualifying
\* "trader" column for the same role, the role is resolved to a qualifying
\* "positions" column, wherever the two stand in the column order.
C1_PositionsPreferred ==
  ResolverDone =>
    \A role \in Roles :
      ( /\ QualifyingIn(df.columns, role, "positions") # {}
        /\ QualifyingIn(df.columns, role, "trader") # {} )
      => /\ roles[role] # None
         /\ Qualifies(roles[role], role, "positions")

\* A role with both kinds of column, the "trader" one first in column order,
\* resolved to the "positions" one
C1_Witness ==
  /\ pc = "derived"
  /\ \E role \in Roles :
       /\ QualifyingIn(df.columns, role, "positions") # {}
       /\ QualifyingIn(df.columns, role, "trader") # {}
       /\ Min(QualifyingIn(df.columns, role, "trader"))
            < Min(QualifyingIn(df.columns, role, "positions"))
       /\ roles[role] # None
       /\ Qualifies(roles[role], role, "positions")

\* C2: every role that has no qualifying "positions" column but has a
\* qualifying "trader" column ends resolved to a qualifying "trader" column,
\* whatever the other roles resolved to in the first pass.
C2_FallbackPerRole ==
  ResolverDone =>
    \A role \in Roles :
      ( /\ QualifyingIn(df.columns, role, "positions") = {}
        /\ QualifyingIn(df.columns, role, "trader") # {} )
      => /\ roles[role] # None
         /\ Qualifies(roles[role], role, "trader")

\* C3: within a pass a role is resolved to the first qualifying column in
\* column order: the first "positions" column of the role, and, for a role the
\* second pass fills, its first "trader" column.
C3_FirstMatchWins ==
  ResolverDone =>
    \A role \in Roles :
      /\ QualifyingIn(df.columns, role, "positions") # {}
           => roles[role] =
                df.columns[Min(QualifyingIn(df.columns, role, "positions"))]
      /\ ( /\ QualifyingIn(df.columns, role, "positions") = {}
           /\ QualifyingIn(df.columns, role, "trader") # {}
           /\ roles[role] # None )
           => roles[role] =
                df.columns[Min(QualifyingIn(df.columns, role, "trader"))]

\* The category of cat is derived: its net column is in plot_df and its entry
\* is in trader_data
Derived(cat) ==
  /\ HasColumn(plot_df, cat.net)
  /\ \E i \in DOMAIN trader_data :
       trader_data[i].col = cat.net /\ trader_data[i].label = cat.label

\* C4: in every table without any column that qualifies in the first pass, a
\* category with a qualifying "trader" Long and Short column has both roles
\* resolved to those columns (the first of each in column order) and is derived.
C4_TraderFallback ==
  ( /\ DeriverDone
    /\ \A role \in Roles : QualifyingIn(df.columns, role, "positions") = {} )
  => \A cat \in Categories :
       ( /\ QualifyingIn(df.columns, cat.long, "trader") # {}
         /\ QualifyingIn(df.columns, cat.short, "trader") # {} )
       => /\ roles[cat.long] =
               df.columns[Min(QualifyingIn(df.columns, cat.long, "trader"))]
          /\ roles[cat.short] =
               df.columns[Min(QualifyingIn(df.columns, cat.short, "trader"))]
          /\ Derived(cat)

\* A table without first-pass columns whose category is derived from its
\* "trader" pair
C4_Witness ==
  /\ pc = "shown"
  /\ \A role \in Roles : QualifyingIn(df.columns, role, "positions") = {}
  /\ \E cat \in Categories :
       /\ QualifyingIn(df.columns, cat.long, "trader") # {}
       /\ QualifyingIn(df.columns, cat.short, "trader") # {}
       /\ Qualifies(roles[cat.long], cat.long, "trader")
       /\ Qualifies(roles[cat.short], cat.short, "trader")
       /\ Derived(cat)

\* -------------------------------------------------- the deriver's contract

\* The number a cell counts as: its value when it is a number or parses as
\* one, 0 otherwise
CountsAs(c) ==
  IF c.k = "int" THEN c.n
  ELSE IF c.k = "str" /\ AllDigits(c.s) THEN DigitsVal(c.s)
  ELSE IF c.k = "str" /\ Len(c.s) > 1 /\ c.s[1] = "-" /\ AllDigits(Tail(c.s))
       THEN 0 - DigitsVal(Tail(c.s))
  ELSE 0

\* The row of the caller's table that a row of plot_df was taken from
SourceRow(row) == CHOOSE r \in {df.rows[i] : i \in DOMAIN df.rows} : r.idx = row.idx

\* Both roles of the category are resolved
PairResolved(r, cat) == r[cat.long] # None /\ r[cat.short] # None

\* C5: for every category with both roles resolved and every row of the
\* filtered table, the derived net column holds Long minus Short of the source
\* row, a cell that is no number counting as 0, and nothing is raised.
C5_NetIsLongMinusShort ==
  DeriverDone =>
    /\ raised = ""
    /\ \A cat \in Categories :
         PairResolved(roles, cat) =>
           /\ HasColumn(plot_df, cat.net)
           /\ \A i \in DOMAIN plot_df.rows :
                CellOf(plot_df, plot_df.rows[i], cat.net) =
                  IntCell(CountsAs(CellOf(df, SourceRow(plot_df.rows[i]), roles[cat.long]))
                          - CountsAs(CellOf(df, SourceRow(plot_df.rows[i]), roles[cat.short])))

\* A derived row whose Long cell is a numeral in text and whose Short cell is
\* text that is no number
C5_Witness ==
  /\ pc = "shown"
  /\ \E cat \in Categories :
       /\ PairResolved(roles, cat)
       /\ \E i \in DOMAIN plot_df.rows :
            /\ CellOf(df, SourceRow(plot_df.rows[i]), roles[cat.long]) = StrCell(<<"1","0","0","0">>)
            /\ CellOf(df, SourceRow(plot_df.rows[i]), roles[cat.short]) = StrCell(<<"n","/","a">>)
            /\ CellOf(plot_df, plot_df.rows[i], cat.net) = IntCell(1000)

\* The table and the call of the end-to-end example, the date range including
\* the row
SpecExampleCall ==
  /\ df = TableOf(LayoutSpecExample,
                  << [contract |-> GOLD, date |-> StrCell(<<"2","0","2","4","-","0","1","-","0","2">>),
                      long |-> IntCell(1000), short |-> IntCell(400)] >>)
  /\ contract_name = GOLD
  /\ StrIn(<<"l","e","g","a","c","y">>, Lower(report_type))
  /\ LET lo  == RangeStart(start_date, end_date, now)
         hi  == RangeEnd(start_date, end_date, now)
         day == ParseDate(<<"2","0","2","4","-","0","1","-","0","2">>)
     IN  (lo.k = "date" => lo.d <= day) /\ (hi.k = "date" => day <= hi.d)

\* The call has ended
PlotEnded == pc \in {"no_data", "unsupported", "no_columns", "shown", "raised"}

\* C8: the call on the example table for GOLD, with a date range that includes
\* the row, ends with the Commercial pair resolved and Commercial_Net = 600 in
\* the row.
C8_SpecExample ==
  (SpecExampleCall /\ PlotEnded) =>
    /\ roles.comm_long = Col(<<"C","o","m","m","_","P","o","s","i","t","i","o","n","s","_","L","o","n","g","_","A","l","l">>)
    /\ roles.comm_short = Col(<<"C","o","m","m","_","P","o","s","i","t","i","o","n","s","_","S","h","o","r","t","_","A","l","l">>)
    /\ HasColumn(plot_df, Col(<<"C","o","m","m","e","r","c","i","a","l","_","N","e","t">>))
    /\ Len(plot_df.rows) = 1
    /\ CellOf(plot_df, plot_df.rows[1], Col(<<"C","o","m","m","e","r","c","i","a","l","_","N","e","t">>)) = IntCell(600)

\* No category has both its roles resolved
NoPairResolved(r) == \A cat \in Categories : ~PairResolved(r, cat)

\* C9: when no category has both roles resolved, the net calculation leaves
\* trader_data empty, and the call then returns having printed the condition
\* with the available columns, with nothing raised and nothing drawn.
C9_EmptyResultReported ==
  [][ /\ (pc = "derive" /\ NoPairResolved(roles))
         => (trader_data' = <<>> /\ raised' = "" /\ pc' = "derived")
      /\ (pc = "derived" /\ NoPairResolved(roles))
         => /\ pc' = "no_columns"
            /\ raised' = ""
            /\ drawn' = <<>>
            /\ printed' = << [msg |-> "Could not find position columns",
                              columns |-> plot_df.columns] >>
            /\ plot_df.columns = df.columns ]_vars

\* A call that ended reporting the condition, one role found without its partner
C9_Witness ==
  /\ pc = "no_columns"
  /\ NoPairResolved(roles)
  /\ roles # NoRoles
  /\ printed # <<>>
  /\ drawn = <<>>
  /\ raised = ""

\* Exactly one role of the category is resolved
PartlyResolved(r, cat) == (r[cat.long] = None) # (r[cat.short] = None)

\* C10: a category with one role resolved gets no net column, no entry of
\* trader_data, no series and no coercion of its column; every category with
\* both roles resolved is derived all the same, and drawn when the chart is.
C10_PartialPairContributesNothing ==
  DeriverDone =>
    \A cat \in Categories :
      /\ PartlyResolved(roles, cat) =>
           /\ ~HasColumn(plot_df, cat.net)
           /\ \A i \in DOMAIN trader_data : trader_data[i].col # cat.net
           /\ \A i \in DOMAIN drawn : drawn[i].label # cat.label
           /\ \A role \in {cat.long, cat.short} :
                roles[role] # None =>
                  \A i \in DOMAIN plot_df.rows :
                    CellOf(plot_df, plot_df.rows[i], roles[role])
                      = CellOf(df, SourceRow(plot_df.rows[i]), roles[role])
      /\ PairResolved(roles, cat) =>
           /\ Derived(cat)
           /\ pc = "shown" => \E i \in DOMAIN drawn :
                /\ drawn[i].label = cat.label
                /\ drawn[i].values = ColumnValues(plot_df, cat.net)

\* A chart drawn for one category while another has one role only
C10_Witness ==
  /\ pc = "shown"
  /\ \E cat \in Categories : PartlyResolved(roles, cat)
  /\ \E cat \in Categories : PairResolved(roles, cat) /\ Derived(cat)
  /\ Len(drawn) = 1

\* ------------------------------------------- the consolidation's contract

\* The key roles of a table of the manager: its identifier column and, for
\* consolidation, its date column
ContractRole(t) == FirstColumn(t.columns, IsContractColumn)
DateRole(t) == FirstColumn(t.columns, IsDateColumn)

\* The entries of dataframes whose table has rows and both key roles
KeyedTables ==
  {i \in DOMAIN dataframes :
     /\ ~IsEmpty(dataframes[i].df)
     /\ ContractRole(dataframes[i].df) # None
     /\ DateRole(dataframes[i].df) # None}

\* The (contract, date) key of a row of a keyed table
KeyOf(t, row) ==
  [contract |-> CellOf(t, row, ContractRole(t)), date |-> CellOf(t, row, DateRole(t))]

\* The rows of table i, by position, that carry the key
RowsWithKey(i, key) ==
  {n \in DOMAIN dataframes[i].df.rows :
     KeyOf(dataframes[i].df, dataframes[i].df.rows[n]) = key}

\* The dates a row of a consolidated table carries in its date columns
DatesOf(t, row) ==
  {CellOf(t, row, t.columns[j]) : j \in {k \in DOMAIN t.columns : IsDateColumn(t.columns[k])}}
    \ {NaN}

\* Row er of the consolidated table e is row r of table t, whole: the cells of
\* r in the columns of t, nothing in any other column
WholeRow(e, er, t, r) ==
  \A j \in DOMAIN e.columns :
    CellOf(e, er, e.columns[j]) =
      IF HasColumn(t, e.columns[j]) THEN CellOf(t, r, e.columns[j]) ELSE NaN

Max(S) == CHOOSE x \in S : \A y \in S : x >= y

\* C6: when two tables hold a row with the same (contract, date) key, the
\* consolidated table of the contract holds exactly one row for the key, and
\* it is a whole row of the last table, in the order of processing, that
\* holds the key.
C6_LaterTableWins ==
  cons_pc = "done" =>
    \A i, j \in KeyedTables :
      i < j =>
        \A n \in DOMAIN dataframes[i].df.rows :
          LET key  == KeyOf(dataframes[i].df, dataframes[i].df.rows[n])
              last == Max({k \in KeyedTables : RowsWithKey(k, key) # {}})
          IN  RowsWithKey(j, key) # {} =>
                /\ InDict(consolidated, key.contract)
                /\ LET e    == DictGet(consolidated, key.contract)
                       hits == {m \in DOMAIN e.rows : key.date \in DatesOf(e, e.rows[m])}
                   IN  /\ Cardinality(hits) = 1
                       /\ \A m \in hits :
                            \E r \in RowsWithKey(last, key) :
                              WholeRow(e, e.rows[m], dataframes[last].df,
                                       dataframes[last].df.rows[r])

\* The contracts of the tables that have a contract column, and for a contract
\* the rows that carry it, as (table, row position)
ContractTables ==
  {i \in DOMAIN dataframes :
     ~IsEmpty(dataframes[i].df) /\ ContractRole(dataframes[i].df) # None}

ContractsLoaded ==
  UNION { {CellOf(dataframes[i].df, dataframes[i].df.rows[n],
                  ContractRole(dataframes[i].df)) :
             n \in DOMAIN dataframes[i].df.rows} : i \in ContractTables }

SourceRows(contract) ==
  {p \in UNION { {<<i, n>> : n \in DOMAIN dataframes[i].df.rows} : i \in ContractTables } :
     CellOf(dataframes[p[1]].df, dataframes[p[1]].df.rows[p[2]],
            ContractRole(dataframes[p[1]].df)) = contract}

\* C7: for every contract of the loaded tables the result holds one table:
\* its rows are whole rows of the contract's source rows, one for each date
\* the contract has in any table, no two of the same date, ascending by date;
\* also for a contract of one table only.
C7_OneSortedTablePerContract ==
  cons_pc = "done" =>
    \A contract \in ContractsLoaded :
      (\A p \in SourceRows(contract) : p[1] \in KeyedTables) =>
        /\ InDict(consolidated, contract)
        /\ Cardinality({i \in DOMAIN consolidated : consolidated[i].key = contract}) = 1
        /\ LET e     == DictGet(consolidated, contract)
               dates == {KeyOf(dataframes[p[1]].df, dataframes[p[1]].df.rows[p[2]]).date :
                           p \in SourceRows(contract)}
           IN  /\ \A m \in DOMAIN e.rows :
                    /\ Cardinality(DatesOf(e, e.rows[m])) = 1
                    /\ \E p \in SourceRows(contract) :
                         WholeRow(e, e.rows[m], dataframes[p[1]].df,
                                  dataframes[p[1]].df.rows[p[2]])
               /\ {d \in dates : \E m \in DOMAIN e.rows : d \in DatesOf(e, e.rows[m])} = dates
               /\ Len(e.rows) = Cardinality(dates)
               /\ \A m \in 1..(Len(e.rows) - 1) :
                    \A d1 \in DatesOf(e, e.rows[m]), d2 \in DatesOf(e, e.rows[m + 1]) :
                      d1.d <= d2.d

\* ---------------------------------- fetch_all_data and load_from_parquet

\* The locals of consolidate_by_contract
consLocals ==
  << cons_pc, table_index, unique_contracts, consolidated, cons_printed,
     cons_raised >>

\* No call of consolidate_by_contract is under way
ConsIdle ==
  /\ cons_pc = "idle"
  /\ table_index = 0
  /\ unique_contracts = <<>>
  /\ consolidated = <<>>
  /\ cons_printed = <<>>
  /\ cons_raised = ""

\* The report types of a dict, in the order of the dict
KeysOf(dict) == [i \in DOMAIN dict |-> dict[i].report_type]

\* A dict that moves a key to the end when it is assigned again
StoreReportMovesLast(dict, rt, table) ==
  Append(SelectSeq(dict, LAMBDA e : e.report_type # rt),
         [report_type |-> rt, df |-> table])

\* self.dataframes[report_type] = table: a new key goes last, an old one
\* keeps its place
StoreReport(dict, rt, table) ==
  IF \E i \in DOMAIN dict : dict[i].report_type = rt
  THEN [i \in DOMAIN dict |->
          IF dict[i].report_type = rt
          THEN [report_type |-> rt, df |-> table] ELSE dict[i]]
  ELSE Append(dict, [report_type |-> rt, df |-> table])

\* [col for col in df.columns if 'date' in col.lower()]
DateColumns(columns) == SelectSeq(columns, IsDateColumn)

\* try: df[date_col] = pd.to_datetime(df[date_col]) / except: pass -- a column
\* with a cell that does not parse is left as it was
ConvertDateColumn(t, col) ==
  IF \E i \in DOMAIN t.rows :
       ToDatetimeCell(CellOf(t, t.rows[i], col)).k = "error"
  THEN t
  ELSE MapColumn(t, col, ToDatetimeCell)

\* for date_col in date_cols: <the conversion above>
ConvertDates(t) ==
  LET cols == DateColumns(t.columns)
      F[i \in 0..Len(cols)] ==
        IF i = 0 THEN t ELSE ConvertDateColumn(F[i - 1], cols[i])
  IN  F[Len(cols)]

\* What cot.cot_all can do for a report type: raise, return None, or return
\* a table -- without rows, with report dates, with a report date that does
\* not parse, or without a date column
Outcomes == {"raises", "none", "empty", "table", "bad_date", "no_date"}

\* The table cot.cot_all returns for entry i of REPORT_TYPES
CotAll(i, outcome) ==
  LET v(d) == << [contract |-> GOLD, date |-> StrCell(d),
                  value |-> IntCell(i)] >>
  IN  CASE outcome = "empty" ->
             Table([j \in DOMAIN ConsLegacy |-> ConsLegacy[j].col], <<>>)
        [] outcome = "table"    -> TableOf(ConsLegacy, v(<<"2","0","2","4","-","0","1","-","0","2">>))
        [] outcome = "bad_date" -> TableOf(ConsLegacy, v(<<"n","/","a">>))
        [] outcome = "no_date"  -> TableOf(ConsNoDate, v(<<"2","0","2","4","-","0","1","-","0","2">>))

\* The file by_report_type/<report type>.parquet of entry i of REPORT_TYPES,
\* as save_to_parquet wrote it after a fetch
ParquetFile(i) == ConvertDates(CotAll(i, "table"))

\* fetch_all_data() is called
FetchCall ==
  /\ mgr_pc \in {"new", "returned", "raised"}
  /\ mgr_pc' = "fetch"
  /\ report_index' = 1
  /\ returned' = ""
  /\ mgr_printed' = [msg |-> "Fetching all COT data"]
  /\ mgr_raised' = ""
  /\ first_call' = (mgr_pc = "new")
  /\ UNCHANGED << dataframes, consLocals, plotVars, saveVars >>

\* A loop without the try: an exception of cot.cot_all ends the call
FetchReportStops(outcome) ==
  /\ mgr_pc = "fetch"
  /\ report_index <= Len(REPORT_TYPES)
  /\ LET rt        == REPORT_TYPES[report_index]
         t         == CotAll(report_index, outcome)
         date_cols == DateColumns(t.columns)
     IN  IF outcome = "raises"
         THEN /\ mgr_raised' = "cot_all failed"
              /\ mgr_pc' = "raised"
              /\ UNCHANGED << dataframes, mgr_printed, report_index >>
         ELSE IF outcome = "none" \/ IsEmpty(t)
         THEN /\ mgr_printed' = [msg |-> "No data available",
                                 report_type |-> rt]
              /\ UNCHANGED dataframes
         ELSE /\ dataframes' = StoreReport(dataframes, rt, ConvertDates(t))
              /\ mgr_printed' =
                   IF date_cols = <<>>
                   THEN [msg |-> "Error fetching", report_type |-> rt,
                         error |-> "list index out of range"]
                   ELSE [msg |-> "Fetched", report_type |-> rt,
                         records |-> Len(t.rows), date_col |-> date_cols[1]]
  /\ returned' = outcome
  /\ outcome # "raises" =>
       /\ report_index' = report_index + 1
       /\ UNCHANGED << mgr_pc, mgr_raised >>
  /\ UNCHANGED first_call
  /\ UNCHANGED << consLocals, plotVars, saveVars >>

\* One pass of the loop of fetch_all_data: cot.cot_all is called for the
\* report type; a table with rows has its date columns converted and is
\* stored, then the success line is printed, which raises IndexError when
\* the table has no date column; every exception ends up in the error line
FetchReport(outcome) ==
  /\ mgr_pc = "fetch"
  /\ report_index <= Len(REPORT_TYPES)
  /\ LET rt        == REPORT_TYPES[report_index]
         t         == CotAll(report_index, outcome)
         date_cols == DateColumns(t.columns)
     IN  IF outcome = "raises"
         THEN /\ mgr_printed' = [msg |-> "Error fetching", report_type |-> rt,
                                 error |-> "cot_all failed"]
              /\ UNCHANGED dataframes
         ELSE IF outcome = "none" \/ IsEmpty(t)
         THEN /\ mgr_printed' = [msg |-> "No data available",
                                 report_type |-> rt]
              /\ UNCHANGED dataframes
         ELSE /\ dataframes' = StoreReport(dataframes, rt, ConvertDates(t))
              /\ mgr_printed' =
                   IF date_cols = <<>>
                   THEN [msg |-> "Error fetching", report_type |-> rt,
                         error |-> "list index out of range"]
                   ELSE [msg |-> "Fetched", report_type |-> rt,
                         records |-> Len(t.rows), date_col |-> date_cols[1]]
  /\ returned' = outcome
  /\ report_index' = report_index + 1
  /\ UNCHANGED << mgr_pc, mgr_raised, first_call >>
  /\ UNCHANGED << consLocals, plotVars, saveVars >>

\* The loop of fetch_all_data is through: return self.dataframes
FetchReturn ==
  /\ mgr_pc = "fetch"
  /\ report_index > Len(REPORT_TYPES)
  /\ mgr_pc' = "returned"
  /\ UNCHANGED << dataframes, report_index, returned, mgr_printed, mgr_raised,
                  first_call >>
  /\ UNCHANGED << consLocals, plotVars, saveVars >>

\* load_from_parquet() is called
LoadCall ==
  /\ mgr_pc \in {"new", "returned", "raised"}
  /\ mgr_pc' = "load"
  /\ report_index' = 1
  /\ returned' = ""
  /\ mgr_printed' = <<>>
  /\ mgr_raised' = ""
  /\ first_call' = (mgr_pc = "new")
  /\ UNCHANGED << dataframes, consLocals, plotVars, saveVars >>

\* What the data directory can hold for a report type: no file, a file
\* save_to_parquet wrote, a file pd.read_parquet cannot read
Files == {"missing", "file", "unreadable"}

\* One pass of the loop of load_from_parquet(): a file that exists is read
\* and stored; an error of pd.read_parquet ends the call
LoadReport(file) ==
  /\ mgr_pc = "load"
  /\ report_index <= Len(REPORT_TYPES)
  /\ LET rt == REPORT_TYPES[report_index]
     IN  IF file = "missing"
         THEN /\ report_index' = report_index + 1
              /\ UNCHANGED << dataframes, mgr_pc, mgr_raised >>
         ELSE IF file = "unreadable"
         THEN /\ mgr_raised' = "ArrowInvalid"
              /\ mgr_pc' = "raised"
              /\ UNCHANGED << dataframes, report_index >>
         ELSE /\ dataframes' =
                   StoreReport(dataframes, rt, ParquetFile(report_index))
              /\ report_index' = report_index + 1
              /\ UNCHANGED << mgr_pc, mgr_raised >>
  /\ UNCHANGED << returned, mgr_printed, first_call >>
  /\ UNCHANGED << consLocals, plotVars, saveVars >>

\* The loop of load_from_parquet() is through: return self.dataframes
LoadReturn ==
  /\ mgr_pc = "load"
  /\ report_index > Len(REPORT_TYPES)
  /\ mgr_pc' = "returned"
  /\ UNCHANGED << dataframes, report_index, returned, mgr_printed, mgr_raised,
                  first_call >>
  /\ UNCHANGED << consLocals, plotVars, saveVars >>

\* One call of fetch_all_data() on a manager that is new or has loaded the
\* file of one report type, the data source free to do anything
InitFetch ==
  /\ PlotIdle
  /\ ConsIdle
  /\ SaveIdle
  /\ \E i \in 0..Len(REPORT_TYPES) :
       /\ dataframes =
            (IF i = 0 THEN <<>>
             ELSE << [report_type |-> REPORT_TYPES[i],
                      df |-> ParquetFile(i)] >>)
       /\ first_call = (i = 0)
  /\ mgr_pc = "fetch"
  /\ report_index = 1
  /\ returned = ""
  /\ mgr_printed = [msg |-> "Fetching all COT data"]
  /\ mgr_raised = ""

NextFetch ==
  \/ \E outcome \in Outcomes : FetchReport(outcome)
  \/ FetchReturn

SpecFetch == InitFetch /\ [][NextFetch]_vars

\* Any sequence of calls of fetch_all_data() and load_from_parquet() on a new
\* manager, each report type published or failing, each file there or not
InitManager ==
  /\ PlotIdle
  /\ ConsIdle
  /\ dataframes = <<>>
  /\ MgrIdle
  /\ SaveIdle

NextManager ==
  \/ FetchCall
  \/ \E outcome \in {"raises", "table"} : FetchReport(outcome)
  \/ FetchReturn
  \/ LoadCall
  \/ \E file \in Files : LoadReport(file)
  \/ LoadReturn

SpecManager == InitManager /\ [][NextManager]_vars

\* ---------------------------------------------------------------- C11

\* The report type a pass of the loop of fetch_all_data is about
Attempted == REPORT_TYPES[report_index]

\* The pass of the loop that is taken from this state failed, or found no data
NoDataStep == returned' \in {"raises", "none", "empty"}

\* C11: fetch_all_data attempts every report type of REPORT_TYPES in list
\* order whatever happened to the ones before: each pass of the loop moves on
\* to the next report type and the call returns only after the last one; a
\* pass whose fetch raises or returns None or an empty table prints a line
\* for that report type and leaves dataframes as it was; a pass whose fetch
\* returns a table with rows stores it under its report type, whatever the
\* passes before did; and the call never ends with an exception.
C11_FetchNeverStops ==
  /\ [](mgr_pc # "raised" /\ mgr_raised = "")
  /\ [](mgr_pc = "returned" => report_index = Len(REPORT_TYPES) + 1)
  /\ [][ mgr_pc = "fetch" /\ report_index <= Len(REPORT_TYPES) =>
           /\ mgr_pc' = "fetch"
           /\ report_index' = report_index + 1
           /\ mgr_printed'.report_type = Attempted
           /\ IF NoDataStep
              THEN /\ dataframes' = dataframes
                   /\ mgr_printed'.msg \in {"Error fetching",
                                            "No data available"}
              ELSE /\ \E i \in DOMAIN dataframes' :
                        /\ dataframes'[i].report_type = Attempted
                        /\ dataframes'[i].df =
                             ConvertDates(CotAll(report_index, returned'))
                   /\ \A i \in DOMAIN dataframes :
                        dataframes[i].report_type # Attempted =>
                          dataframes'[i] = dataframes[i] ]_vars

\* A call on a new manager has returned: the fetch of legacy_fut and of
\* another report type failed, the last report type was fetched after them
\* and is stored
C11_Witness ==
  /\ mgr_pc = "returned"
  /\ first_call
  /\ returned = "table"
  /\ Len(dataframes) = Len(REPORT_TYPES) - 2
  /\ dataframes[1].report_type # REPORT_TYPES[1]
  /\ dataframes[Len(dataframes)].report_type = REPORT_TYPES[Len(REPORT_TYPES)]

\* ---------------------------------------------------------------- C12

\* C12: a table of dataframes without identifier column or without date
\* column stops the processing of that table only: consolidate_by_contract
\* does not end with an exception, and when it has returned every contract of
\* every table that has both key roles has its table in the result.
C12_MissingRoleSkipsTable ==
  /\ cons_pc # "raised"
  /\ cons_raised = ""
  /\ cons_pc = "done" =>
       \A i \in KeyedTables :
         \A n \in DOMAIN dataframes[i].df.rows :
           InDict(consolidated,
                  CellOf(dataframes[i].df, dataframes[i].df.rows[n],
                         ContractRole(dataframes[i].df)))

\* ---------------------------------------------------------------- C13

\* C13: plot_trader_positions leaves the caller's table as it was, and for
\* every category it has derived the net column is a column the caller's
\* table does not have, while every row of the derived table still holds in
\* the Long and in the Short column the cell of its source row.
C13_OriginalsRetained ==
  /\ [][df' = df]_vars
  /\ [](DeriverDone =>
          \A cat \in Categories :
            PairResolved(roles, cat) =>
              /\ ~HasColumn(df, cat.net)
              /\ \A i \in DOMAIN plot_df.rows :
                   \A col \in {roles[cat.long], roles[cat.short]} :
                     CellOf(plot_df, plot_df.rows[i], col) =
                       CellOf(df, SourceRow(plot_df.rows[i]), col))

\* ---------------------------------------------------------------- C14

\* The column a resolver has put in a role obeys the rule of the role
RoleObeysRule(r, role) ==
  r[role] # None =>
    /\ Has(r[role], RoleRule[role].category)
    /\ Has(r[role], RoleRule[role].side)
    /\ Has(r[role], "all")
    /\ \A x \in RoleRule[role].excluded : ~Has(r[role], x)

\* C14: after both passes, in plot_trader_positions and in validate_cot_data
\* alike, the column of every resolved role contains the category token of
\* the role, its side token and "(all)" in its lowered name; the column of a
\* Commercial role does not contain "noncommercial" and the column of a
\* Speculator role does not contain "spreading".
C14_ResolvedColumnsQualify ==
  ResolverDone =>
    \A role \in Roles :
      /\ RoleObeysRule(roles, role)
      /\ RoleObeysRule(Resolve(df.columns), role)

\* Both Long roles are resolved in a table that holds, after their columns, a
\* Noncommercial column for the Commercial role to shun and a Spreading
\* column for the Speculator role to shun
C14_Witness ==
  /\ ResolverDone
  /\ roles.comm_long = Col(<<"C","O","M","M","E","R","C","I","A","L"," ","P","O","S","I","T","I","O","N","S","-","L","O","N","G"," ","(","A","L","L",")">>)
  /\ roles.noncomm_long = Col(<<"N","o","n","c","o","m","m","e","r","c","i","a","l"," ","P","o","s","i","t","i","o","n","s","-","L","o","n","g"," ","(","A","l","l",")">>)
  /\ \E i, j, k \in DOMAIN df.columns :
       /\ i < j /\ j < k
       /\ df.columns[i] = roles.comm_long
       /\ df.columns[j] = roles.noncomm_long
       /\ df.columns[k] = Col(<<"N","o","n","c","o","m","m","e","r","c","i","a","l"," ","P","o","s","i","t","i","o","n","s","-","S","p","r","e","a","d","i","n","g"," ","L","o","n","g"," ","(","A","l","l",")">>)

\* ---------------------------------------------------------------- C15

\* The first column, in column order, whose name contains every token of one
\* of the token sets, in any case of letters; None when there is none
FirstNamed(columns, tokenSets) ==
  LET I == {i \in DOMAIN columns :
              \E ts \in tokenSets :
                \A k \in ts : Has(columns[i], k)}
  IN  IF I = {} THEN None ELSE columns[Min(I)]

\* plot_trader_positions has looked for its key columns
KeysLooked == pc \notin {"idle", "start"}

\* C15: once plot_trader_positions has looked for its key columns, its date
\* column is the first column of the table whose name contains "date" and
\* "yyyy", None when there is none; its identifier column, looked for when
\* the date column is found, is the first column whose name contains "market"
\* or "contract", None when there is none; the identifier column and the date
\* column consolidate_by_contract uses for the same table are the first
\* column with "market" or "contract" and the first column with "date".
C15_KeyRolesFirstMatch ==
  KeysLooked =>
    /\ date_col = FirstNamed(df.columns, {{"date", "yyyy"}})
    /\ date_col # None =>
         contract_col = FirstNamed(df.columns, {{"market"}, {"contract"}})
    /\ (date_col = None \/ contract_col = None) => pc = "raised"
    /\ ContractRole(df) = FirstNamed(df.columns, {{"market"}, {"contract"}})
    /\ DateRole(df) = FirstNamed(df.columns, {{"date"}})

\* A table whose first column with "date" is not its first column with "date"
\* and "yyyy", and which has a second column with "contract" after the
\* identifier column
C15_Witness ==
  /\ KeysLooked
  /\ contract_col = Col(<<"M","a","r","k","e","t"," ","a","n","d"," ","E","x","c","h","a","n","g","e"," ","N","a","m","e","s">>)
  /\ date_col = Col(<<"A","s"," ","o","f"," ","D","a","t","e"," ","i","n"," ","F","o","r","m"," ","Y","Y","Y","Y","-","M","M","-","D","D">>)
  /\ DateRole(df) = Col(<<"A","s"," ","o","f"," ","D","a","t","e"," ","i","n"," ","F","o","r","m"," ","Y","Y","M","M","D","D">>)
  /\ \E i, j \in DOMAIN df.columns :
       /\ i < j
       /\ df.columns[i] = contract_col
       /\ df.columns[j] = Col(<<"C","F","T","C"," ","C","o","n","t","r","a","c","t"," ","M","a","r","k","e","t"," ","C","o","d","e">>)

\* ---------------------------------------------------------------- C16

\* The place of a report type in REPORT_TYPES
ReportTypeIndex(rt) == CHOOSE i \in DOMAIN REPORT_TYPES : REPORT_TYPES[i] = rt

\* The report types stand in the order of REPORT_TYPES
InReportTypesOrder(keys) ==
  \A i, j \in DOMAIN keys :
    i < j => ReportTypeIndex(keys[i]) < ReportTypeIndex(keys[j])

\* No call is under way on the manager
BetweenCalls == mgr_pc \in {"new", "returned", "raised"}

\* C16 as stated: after any sequence of calls of fetch_all_data() and
\* load_from_parquet() on one manager, dataframes iterates in the order of
\* REPORT_TYPES, restricted to the report types it holds.
C16_ReportTypesOrder ==
  BetweenCalls => InReportTypesOrder(KeysOf(dataframes))

\* C16 amended: dataframes iterates in the order in which its report types
\* were first stored. No step of fetch_all_data() or load_from_parquet()
\* moves or removes a report type dataframes holds, and a step that stores a
\* new one puts it last; so the order is that of REPORT_TYPES up to the end of
\* the first call on a manager, and need not be after a later call.
C16_FirstStoredOrder ==
  /\ [](first_call => InReportTypesOrder(KeysOf(dataframes)))
  /\ [][ \/ KeysOf(dataframes') = KeysOf(dataframes)
         \/ /\ mgr_pc \in {"fetch", "load"}
            /\ REPORT_TYPES[report_index] \notin
                 {KeysOf(dataframes)[i] : i \in DOMAIN dataframes}
            /\ KeysOf(dataframes') =
                 Append(KeysOf(dataframes), REPORT_TYPES[report_index]) ]_vars

\* A second call has stored legacy_fut, which the first call did not store,
\* behind the report types the first call stored
C16_Witness ==
  /\ BetweenCalls
  /\ ~first_call
  /\ Len(dataframes) > 1
  /\ dataframes[Len(dataframes)].report_type = REPORT_TYPES[1]

\* ----------------------------------------------------- validate_cot_data

\* pd.to_numeric(data[col], errors='coerce') on one cell: no fillna follows
ValidateCoerceCell(c) == ToNumericCell(c)

\* cl - cs on the coerced cells of one row: NaN when either is NaN
ValidateNetCell(l, s) ==
  IF l.k = "nan" \/ s.k = "nan" THEN NaN ELSE IntCell(l.n - s.n)

\* What validate_cot_data prints for a row of the table: Long, Short and Net
\* of every category with both roles resolved
ValidateRow(t, row) ==
  LET r == Resolve(t.columns)
  IN  [cat \in {c \in Categories : PairResolved(r, c)} |->
         LET l == ValidateCoerceCell(CellOf(t, row, r[cat.long]))
             s == ValidateCoerceCell(CellOf(t, row, r[cat.short]))
         IN  [long |-> l, short |-> s, net |-> ValidateNetCell(l, s)]]

\* ---------------------------------------------------------------- C17

\* C17: on the table plot_trader_positions was called with, validate_cot_data
\* resolves the six roles to the columns the plotter resolved them to, and
\* for every category with both roles and every row of the filtered table the
\* Net it prints for the row is the value of the plotter's net column, also
\* when a Long or Short cell of the row is no number.
C17_ValidateAgreesWithPlot ==
  DeriverDone =>
    /\ Resolve(df.columns) = roles
    /\ \A cat \in Categories :
         PairResolved(roles, cat) =>
           \A i \in DOMAIN plot_df.rows :
             ValidateRow(df, SourceRow(plot_df.rows[i]))[cat].net =
               CellOf(plot_df, plot_df.rows[i], cat.net)

\* --------------------------------------------------------- save_to_parquet

\* c.isalnum() for the characters of the model
IsAlnum(c) ==
  \/ \E i \in DOMAIN UpperChars : UpperChars[i] = c
  \/ \E i \in DOMAIN LowerChars : LowerChars[i] = c
  \/ IsDigit(c)

\* safe_name[:100]
MaxFileNameLen == 100

\* "".join(c if c.isalnum() or c in (' ', '-', '_') else '_' for c in
\* contract).replace(' ', '_')[:100]
SafeName(contract) ==
  LET kept == [i \in DOMAIN contract |->
                 IF IsAlnum(contract[i]) \/ contract[i] \in {" ", "-", "_"}
                 THEN contract[i] ELSE "_"]
      replaced == [i \in DOMAIN kept |-> IF kept[i] = " " THEN "_" ELSE kept[i]]
  IN  SubSeq(replaced, 1,
             IF Len(replaced) < MaxFileNameLen THEN Len(replaced)
             ELSE MaxFileNameLen)

\* str(n) of an integer
RECURSIVE Decimal(_)
Decimal(n) ==
  IF n < 0 THEN <<"-">> \o Decimal(0 - n)
  ELSE IF n < 10 THEN << DigitChars[n + 1] >>
  ELSE Decimal(n \div 10) \o << DigitChars[(n % 10) + 1] >>

\* A number in at least w digits
Padded(n, w) ==
  LET s == Decimal(n)
  IN  [i \in 1..(IF Len(s) < w THEN w - Len(s) ELSE 0) |-> "0"] \o s

\* str(x) of a cell: a datetime as "YYYY-MM-DD 00:00:00", a missing value as
\* "nan"
StrOf(c) ==
  CASE c.k = "str"  -> c.s
    [] c.k = "int"  -> Decimal(c.n)
    [] c.k = "nan"  -> <<"n","a","n">>
    [] c.k = "date" ->
         LET ymd == CHOOSE t \in (1900..2100) \X (1..12) \X (1..31) :
                      t[3] <= DaysInMonth(t[1], t[2])
                      /\ Ordinal(t[1], t[2], t[3]) = c.d
         IN  Padded(ymd[1], 4) \o <<"-">> \o Padded(ymd[2], 2) \o <<"-">>
               \o Padded(ymd[3], 2) \o <<" ","0","0",":","0","0",":","0","0">>

\* df_clean[col].dtype == 'object': the column holds a str, or values of more
\* than one kind
IsObjectColumn(t, col) ==
  LET kinds == {CellOf(t, t.rows[i], col).k : i \in DOMAIN t.rows} \ {"nan"}
  IN  "str" \in kinds \/ Cardinality(kinds) > 1

\* The cleaning of one column before a table is written: an object column is
\* turned into numbers when every cell of it is one (errors='ignore' leaves
\* the column alone otherwise), and into str when it is still object then
CleanColumn(t, col) ==
  IF ~IsObjectColumn(t, col) THEN t
  ELSE LET numeric == \A i \in DOMAIN t.rows :
                        \/ CellOf(t, t.rows[i], col).k = "nan"
                        \/ ToNumericCell(CellOf(t, t.rows[i], col)).k = "int"
           n == IF numeric THEN MapColumn(t, col, ToNumericCell) ELSE t
       IN  IF IsObjectColumn(n, col) THEN MapColumn(n, col, StrOf) ELSE n

\* for col in df_clean.columns: <the cleaning above>
CleanTable(t) ==
  LET F[j \in 0..Len(t.columns)] ==
        IF j = 0 THEN t ELSE CleanColumn(F[j - 1], t.columns[j])
  IN  F[Len(t.columns)]

\* df_clean.to_parquet(filepath, index=False): the table in the file, its
\* rows numbered anew
ParquetOf(t) ==
  LET c == CleanTable(t)
  IN  Table(c.columns, [i \in DOMAIN c.rows |-> Row(i - 1, c.rows[i].cells)])

\* A directory after a file is written: a file of that name is replaced
WriteFile(dir, name, table) ==
  [n \in DOMAIN dir \cup {name} |-> IF n = name THEN table ELSE dir[n]]

\* The loop over self.dataframes of the by_report_type part: a table with
\* rows is cleaned and written to <report type>.parquet
SaveReportType ==
  /\ save_pc = "report_types"
  /\ by_report_type
  /\ save_index <= Len(dataframes)
  /\ LET e == dataframes[save_index]
     IN  IF IsEmpty(e.df)
         THEN UNCHANGED << report_files, save_printed >>
         ELSE /\ report_files' =
                   WriteFile(report_files, e.report_type, ParquetOf(e.df))
              /\ save_printed' =
                   Append(save_printed,
                          [msg |-> "Saved", report_type |-> e.report_type,
                           records |-> Len(e.df.rows)])
  /\ save_index' = save_index + 1
  /\ UNCHANGED << save_pc, by_report_type, by_contract, contract_files,
                  save_raised >>
  /\ UNCHANGED << consVars, plotVars, mgrVars >>

\* The by_report_type part is through or was not asked for: with by_contract
\* consolidate_by_contract() is called, without it the call returns
SaveConsolidate ==
  /\ save_pc = "report_types"
  /\ ~by_report_type \/ save_index > Len(dataframes)
  /\ IF by_contract
     THEN /\ save_pc' = "consolidate"
          /\ cons_pc' = "tables"
          /\ table_index' = 1
          /\ UNCHANGED << unique_contracts, consolidated, cons_printed,
                          cons_raised >>
     ELSE /\ save_pc' = "done"
          /\ UNCHANGED consLocals
  /\ UNCHANGED << save_index, by_report_type, by_contract, report_files,
                  contract_files, save_printed, save_raised >>
  /\ UNCHANGED << dataframes, plotVars, mgrVars >>

\* consolidate_by_contract() has returned: the loop over its result begins
SaveConsolidated ==
  /\ save_pc = "consolidate"
  /\ cons_pc = "done"
  /\ save_pc' = "contracts"
  /\ save_index' = 1
  /\ UNCHANGED << by_report_type, by_contract, report_files, contract_files,
                  save_printed, save_raised >>
  /\ UNCHANGED << consVars, plotVars, mgrVars >>

\* consolidate_by_contract() has raised: so does save_to_parquet
SaveRaises ==
  /\ save_pc = "consolidate"
  /\ cons_pc = "raised"
  /\ save_pc' = "raised"
  /\ save_raised' = cons_raised
  /\ UNCHANGED << save_index, by_report_type, by_contract, report_files,
                  contract_files, save_printed >>
  /\ UNCHANGED << consVars, plotVars, mgrVars >>

\* The loop over consolidated: the table of the contract is cleaned and
\* written to <safe_name>.parquet; a contract that is no str cannot be
\* iterated for its file name
SaveContract ==
  /\ save_pc = "contracts"
  /\ save_index <= Len(consolidated)
  /\ LET contract == consolidated[save_index].key
     IN  IF contract.k # "str"
         THEN /\ save_raised' = "TypeError: object is not iterable"
              /\ save_pc' = "raised"
              /\ UNCHANGED << contract_files, save_index >>
         ELSE /\ contract_files' =
                   WriteFile(contract_files, SafeName(contract.s),
                             ParquetOf(consolidated[save_index].df))
              /\ save_index' = save_index + 1
              /\ UNCHANGED << save_pc, save_raised >>
  /\ UNCHANGED << by_report_type, by_contract, report_files, save_printed >>
  /\ UNCHANGED << consVars, plotVars, mgrVars >>

\* The loop is through: print the number of contract files, return
SaveReturn ==
  /\ save_pc = "contracts"
  /\ save_index > Len(consolidated)
  /\ save_printed' = Append(save_printed,
                            [msg |-> "Saved contract files",
                             count |-> Len(consolidated)])
  /\ save_pc' = "done"
  /\ UNCHANGED << save_index, by_report_type, by_contract, report_files,
                  contract_files, save_raised >>
  /\ UNCHANGED << consVars, plotVars, mgrVars >>

MaxContracts == 3   \* contracts of the first table of the manager

\* Contract identifiers: with characters the file name keeps, with characters
\* it replaces, and two of 101 characters that differ in the last one
ContractPool ==
  { GOLD, <<"S","&","P"," ","5","0","0">>, <<"S"," ","P"," ","5","0","0">>, <<"S","_","P","_","5","0","0">>,
    <<"E","U","R","O","D","O","L","L","A","R"," ","T","I","M","E"," ","D","E","P","O","S","I","T"," ","T","H","R","E","E"," ","M","O","N","T","H"," ","I","N","T","E","R","E","S","T"," ","R","A","T","E"," ","F","U","T","U","R","E","S"," ","A","N","D"," ","O","P","T","I","O","N","S"," ","C","O","M","B","I","N","E","D"," ","-"," ","C","H","I","C","A","G","O"," ","M","E","R","C","A","N","T","I","L","E"," ","A">>,
    <<"E","U","R","O","D","O","L","L","A","R"," ","T","I","M","E"," ","D","E","P","O","S","I","T"," ","T","H","R","E","E"," ","M","O","N","T","H"," ","I","N","T","E","R","E","S","T"," ","R","A","T","E"," ","F","U","T","U","R","E","S"," ","A","N","D"," ","O","P","T","I","O","N","S"," ","C","O","M","B","I","N","E","D"," ","-"," ","C","H","I","C","A","G","O"," ","M","E","R","C","A","N","T","I","L","E"," ","B">> }

\* The state at the call of save_to_parquet(by_report_type, by_contract):
\* dataframes holds a table for legacy_fut with one row for each of up to
\* MaxContracts contracts, and for legacy_futopt no table or a table of one
\* row, with or without date column
InitSave ==
  /\ PlotIdle
  /\ ConsIdle
  /\ MgrIdle
  /\ \E contracts \in DistinctSeqs(ContractPool, MaxContracts),
        second \in {<<>>, ConsLegacy, ConsNoDate} :
       dataframes =
         << [report_type |-> REPORT_TYPES[1],
             df |-> TableOf(ConsLegacy,
                      [i \in DOMAIN contracts |->
                         [contract |-> contracts[i],
                          date |-> DateCell(ParseDate(<<"2","0","2","4","-","0","1","-","0","2">>)),
                          value |-> IntCell(10 + i)]])] >>
         \o (IF second = <<>> THEN <<>>
             ELSE << [report_type |-> REPORT_TYPES[2],
                      df |-> TableOf(second,
                               << [contract |-> <<"S","&","P"," ","5","0","0">>,
                                   date |-> DateCell(ParseDate(<<"2","0","2","4","-","0","1","-","0","9">>)),
                                   value |-> IntCell(21)] >>)] >>)
  /\ save_pc = "report_types"
  /\ save_index = 1
  /\ by_report_type \in BOOLEAN
  /\ by_contract \in BOOLEAN
  /\ report_files = <<>>
  /\ contract_files = <<>>
  /\ save_printed = << [msg |-> "Saving data to parquet files"] >>
  /\ save_raised = ""

NextSave ==
  \/ SaveReportType
  \/ SaveConsolidate
  \/ ConsTable
  \/ ConsContract
  \/ ConsNextTable
  \/ ConsReturn
  \/ SaveConsolidated
  \/ SaveRaises
  \/ SaveContract
  \/ SaveReturn

SpecSave == InitSave /\ [][NextSave]_vars

\* ---------------------------------------------------------------- C18

\* C18: when save_to_parquet(by_contract=True) has returned, no two contracts
\* of the consolidated dict have the same file name, the directory
\* by_contract holds as many files as the call reports contracts, and the
\* file of every contract holds the table of that contract.
C18_OneFilePerContract ==
  (save_pc = "done" /\ by_contract) =>
    /\ \A i, j \in DOMAIN consolidated :
         i # j => SafeName(consolidated[i].key.s) # SafeName(consolidated[j].key.s)
    /\ Cardinality(DOMAIN contract_files) = Len(consolidated)
    /\ save_printed[Len(save_printed)].count = Cardinality(DOMAIN contract_files)
    /\ \A i \in DOMAIN consolidated :
         /\ SafeName(consolidated[i].key.s) \in DOMAIN contract_files
         /\ contract_files[SafeName(consolidated[i].key.s)] =
              ParquetOf(consolidated[i].df)

====
